---------------------------- MODULE Spec2Model ----------------------------
(***************************************************************************)
(* State-machine model of the k4 market-data gateway hot path:             *)
(*   k4-core/src/dedup.rs      UpdateIdDedup, UuidDedup                    *)
(*   k4-core/src/shm.rs        ShmMdStore (per-symbol ring buffers)        *)
(*   k4-md/src/dedup_worker.rs run_dedup_loop                              *)
(*   k4-md/src/ws_helper.rs    the connection callback feeding the channel *)
(*   k4-core/src/ws/client.rs  WsConnection / connection_loop              *)
(*   k4-core/src/ws/redundant.rs  RedundantWsClient                        *)
(*   k4-core/src/latency.rs    LatencyCollector                            *)
(*   k4-md/src/bybit/order_book.rs  OrderBook                              *)
(*   k4-md/src/bitget/json_parser.rs, k4-md/src/binance/json_parser.rs     *)
(*   k4-md/src/json_util.rs    fill_depth5_levels                          *)
(*   k4-md/src/binance/sbe_parser.rs  the SBE decoder                      *)
(*   k4-md/src/udp/mod.rs      the UDP-ingress module                      *)
(*   k4-md/src/pipeline.rs     GenericMd::start / GenericMd::stop          *)
(*                                                                         *)
(* The module holds several specifications over one set of variables:     *)
(*   Spec        the stream: connections -> channel -> run_dedup_loop      *)
(*   SpecDedup   the two deduplicators called directly                     *)
(*   SpecShm     ShmMdStore driven by sequential write / read_latest calls *)
(*   SpecShmConc ShmMdStore with one writer and concurrent readers         *)
(*   SpecChan    the stream's channel until its senders are dropped        *)
(*   SpecWs      the connection task of one WsConnection                   *)
(*   SpecRed     one RedundantWsClient and its caller                      *)
(*   SpecLat     one LatencyCollector called directly                      *)
(*   SpecBook    one OrderBook after its snapshot, given one delta         *)
(*   SpecSnap    one OrderBook given a snapshot and asked for its depth    *)
(*   SpecBookSeq one OrderBook given snapshots and deltas in any order     *)
(*   SpecBitget  one Bitget trade message through decoder and worker       *)
(*   SpecBinance one Binance JSON message through parse_message            *)
(*   SpecUdp     the receiver task of the UDP-ingress module               *)
(*   SpecSbe     one binary frame handed to the SBE decoder                *)
(*   SpecMd      one stream of GenericMd from start to stop                *)
(*   SpecShmFlat the shared-memory region of one ShmMdStore, cell by cell  *)
(*   SpecD5      one depth message decoded by one of the Depth5 decoders   *)
(* Each specification leaves the variables of the other parts untouched.   *)
(***************************************************************************)
EXTENDS Integers, Sequences, FiniteSets, TLC

VARIABLES
    \* ---- SpecDedup
    d_upd,        \* UpdateIdDedup.last_ids : symbol -> u64 (partial map)
    d_uuid,       \* UuidDedup.table, kept sparsely: slots never stored hold 0
    d_call,       \* the last deduplicator call: arguments, state before, result
    \* ---- SpecShm / SpecShmConc
    store,        \* one ShmMdStore: buffer_size and per-symbol header + ring
    s_call,       \* the last ShmMdStore call: arguments, state before, result
    nwrites,      \* per symbol: completed writes (history)
    lastw,        \* per symbol: the record of the last completed write (history)
    w,            \* the writer thread inside ShmMdStore::write
    rd,           \* the reader threads inside ShmMdStore::read_latest
    passed,       \* the records that were passed to write so far (history)
    \* ---- Spec: one stream (connections -> channel -> run_dedup_loop)
    chan,         \* the stream's bounded crossbeam channel
    bbo_dedup,    \* run_dedup_loop: UpdateIdDedup for Bookticker
    agg_dedup,    \* run_dedup_loop: UpdateIdDedup for AggTrade
    trade_dedup,  \* run_dedup_loop: UpdateIdDedup for Trade
    depth5_dedup, \* run_dedup_loop: UpdateIdDedup for Depth5
    custom_td,    \* run_dedup_loop: Option<TradeDeduper> (the Bybit UuidDedup)
    stores,       \* ProductShmStores: per kind an Option<ShmMdStore>
    feed,         \* the (kind, symbol) pairs the venue publishes in this run
    sent,         \* number of records the connections handed to try_send
    submitted,    \* per (kind, symbol): ids the worker received, in order (history)
    written,      \* per (kind, symbol): ids whose shm write succeeded (history)
    last,         \* the record the worker handled last and what it did (history)
    senders,      \* live Sender clones of the stream's channel
    worker_pc,    \* run_dedup_loop: in its recv loop, or returned
    io,           \* messages the channel accepted / the worker received (history)
    \* ---- SpecWs: one WsConnection and its connection_loop task
    ws_cfg,       \* WsConnConfig: subscribe_msg present?, ping_interval present?
    ws_handle,    \* the WsConnection object: new / started / stopping / stopped / dropped
    ws_pc,        \* where the connection_loop task is
    backoff,      \* connection_loop: backoff, in ms
    shutdown,     \* the watch channel: value sent, sender alive
    outbound,     \* caller texts queued in the outbound mpsc channel
    ws_hist,      \* what the task did since the last successful connect (history)
    \* ---- SpecRed: one RedundantWsClient
    conn_count,   \* RedundantConfig.conn_count
    connections,  \* Vec<WsConnection>: per slot the config.id and started / stopped
    latency_collectors, \* Vec<LatencyCollector>: per slot count and sum
    next_conn_id, \* the allocator of connection identifiers
    r_phase,      \* the client: new / started / stopped
    r_pc,         \* where a pending evaluate_and_reset is
    r_evals,      \* number of evaluate_and_reset calls made
    r_call,       \* the last call: arguments, state before, result; or pending
    \* ---- SpecLat: one LatencyCollector
    collector,    \* the collector
    samples,      \* the samples recorded since the last reset (history)
    \* ---- SpecBook / SpecSnap: one OrderBook<N>
    book_n,       \* the const parameter N of the book
    book,         \* OrderBook: bids and asks
    b_call,       \* the last call: arguments, state before, result
    \* ---- SpecBitget: one Bitget `trade` message through decoder and dedup
    bitget,       \* the message, the decoder's output, the worker's trade dedup
    \* ---- SpecBinance: one Binance JSON message through parse_message
    binance,      \* the message and the decoder's result
    \* ---- SpecUdp: the UDP-ingress module
    udp,          \* its eight optional stores, and what arrived and was written (history)
    \* ---- SpecSbe: one binary frame through the SBE decoder
    sbe,          \* the frame, the decoder's outcome, the connection task
    \* ---- SpecMd: one stream of GenericMd from start to stop
    md,           \* the configuration and the tasks GenericMd spawned
    \* ---- SpecShmFlat: one ShmMdStore as the bytes of its mapped region
    region,       \* the region, the store's index into it, the last call (history)
    \* ---- SpecD5: one Depth5 record built by a decoder
    d5            \* the decoder, its input and the record it built

dedupVars == <<d_upd, d_uuid, d_call>>
shmVars   == <<store, s_call, nwrites, lastw, w, rd, passed>>
workerVars == <<chan, bbo_dedup, agg_dedup, trade_dedup, depth5_dedup, custom_td,
                stores, feed, sent, submitted, written, last,
                senders, worker_pc, io>>
wsVars    == <<ws_cfg, ws_handle, ws_pc, backoff, shutdown, outbound, ws_hist>>
redVars   == <<conn_count, connections, latency_collectors, next_conn_id,
               r_phase, r_pc, r_evals, r_call>>
coreVars  == <<dedupVars, shmVars, workerVars, wsVars, redVars>>
latVars   == <<collector, samples>>
bookVars  == <<book_n, book, b_call>>
unitVars  == <<latVars, bookVars, bitget, binance, udp, sbe, md, region, d5>>
vars      == <<d_upd, d_uuid, d_call, store, s_call, nwrites, lastw, w, rd, passed,
               chan, bbo_dedup, agg_dedup, trade_dedup, depth5_dedup, custom_td,
               stores, feed, sent, submitted, written, last,
               senders, worker_pc, io,
               ws_cfg, ws_handle, ws_pc, backoff, shutdown, outbound, ws_hist,
               conn_count, connections, latency_collectors, next_conn_id,
               r_phase, r_pc, r_evals, r_call, unitVars>>

---------------------------------------------------------------------------
(* Bounds of the model.                                                    *)

\* update ids / trade ids range over 0..MaxId
MaxId == 2
\* ShmMdStore::create is given a buffer_size in 1..MaxB
MaxB == 2
\* total number of write calls that reach a ring in SpecShm / SpecShmConc
MaxWrites == 4
\* payload values of the records written in SpecShm / SpecShmConc
MaxVal == 2
\* number of concurrent reader threads in SpecShmConc
MaxReaders == 1
\* capacity of the stream's channel (8192 in pipeline.rs, scaled down)
ChanCap == 2
\* number of records the connections deliver in one run of Spec
MaxMsgs == 3
\* capacity of a connection's outbound channel (64 in client.rs, scaled down)
MaxOut == 1
\* consecutive failed connection attempts of a connection task
MaxFails == 10
\* keep-alive intervals that elapse during one established connection
MaxTicks == 2
\* RedundantConfig.conn_count ranges over 1..MaxConns
MaxConns == 3
\* latency samples range over 0..MaxLatency (microseconds)
MaxLatency == 1
\* samples held by the collectors of one client at a time
MaxSamples == 2
\* evaluate_and_reset calls on one client
MaxEvals == 2
\* Sender clones of one stream's channel alive at once
MaxSenders == 2
\* record calls between two resets of a collector
MaxRecords == 3
\* the N of an OrderBook given deltas
MaxLevels == 2
\* levels in one delta
MaxDelta == 2
\* trades in one Bitget `trade` message
MaxBatch == 3
\* datagrams received by the UDP-ingress module
MaxDatagrams == 2

---------------------------------------------------------------------------
(* Common helpers.                                                         *)

\* Option<T>
None == [some |-> FALSE]

Some(v) == [some |-> TRUE, val |-> v]

\* HashMap insert / overwrite
MapPut(f, k, v) == [x \in (DOMAIN f) \cup {k} |-> IF x = k THEN v ELSE f[x]]

\* the empty HashMap
EmptyMap == [x \in {} |-> 0]

\* symbols the stores are created with, and one the stores do not know
\* (OKX records carry "BTC-USDT" while the configured list may say "BTCUSDT")
StoreSymbols == {"BTCUSDT", "ETHUSDT"}

UnknownSymbols == {"BTC-USDT"}

AllSymbols == StoreSymbols \cup UnknownSymbols

Ids == 0..MaxId

---------------------------------------------------------------------------
(* k4-core/src/dedup.rs : UpdateIdDedup                                    *)

\* UpdateIdDedup::new
UpdateIdDedupNew == EmptyMap

\* UpdateIdDedup::last_id
last_id(self, symbol) ==
    IF symbol \in DOMAIN self THEN Some(self[symbol]) ELSE None

\* a plausible slip: >= instead of >
check_and_update_ge(self, symbol, update_id) ==
    LET entry == IF symbol \in DOMAIN self THEN self[symbol] ELSE 0
    IN  IF update_id >= entry
        THEN [self |-> MapPut(self, symbol, update_id), ret |-> TRUE]
        ELSE [self |-> MapPut(self, symbol, entry), ret |-> FALSE]

\* a plausible slip: one last id shared by all symbols
check_and_update_shared(self, symbol, update_id) ==
    LET entry == IF self = EmptyMap THEN 0
                 ELSE CHOOSE m \in {self[x] : x \in DOMAIN self} :
                          \A x \in DOMAIN self : self[x] <= m
    IN  IF update_id > entry
        THEN [self |-> MapPut(self, symbol, update_id), ret |-> TRUE]
        ELSE [self |-> MapPut(self, symbol, entry), ret |-> FALSE]

\* a plausible slip: get(symbol) instead of entry(symbol).or_insert(0), so
\* that a rejected call leaves the map as it was
check_and_update_get(self, symbol, update_id) ==
    LET entry == IF symbol \in DOMAIN self THEN self[symbol] ELSE 0
    IN  IF update_id > entry
        THEN [self |-> MapPut(self, symbol, update_id), ret |-> TRUE]
        ELSE [self |-> self, ret |-> FALSE]

\* UpdateIdDedup::check_and_update: entry(symbol).or_insert(0), then compare.
\* Returns the new map and the boolean result.
check_and_update(self, symbol, update_id) ==
    LET entry == IF symbol \in DOMAIN self THEN self[symbol] ELSE 0
    IN  IF update_id > entry
        THEN [self |-> MapPut(self, symbol, update_id), ret |-> TRUE]
        ELSE [self |-> MapPut(self, symbol, entry), ret |-> FALSE]

---------------------------------------------------------------------------
(* k4-core/src/dedup.rs : UuidDedup                                        *)

UUID_TABLE_SIZE == 8192

\* The strings given to check_and_insert are named 0..MaxId (the Bybit
\* closure passes format!("{trade_id}"), and decimal formatting is injective).
Uuids == Ids

\* UuidDedup::hash_uuid. xxh64 is an external crate; it is a fixed function
\* string -> u64 that is not injective.  The stand-in below gives, for the
\* strings of the model: 0 -> 1, 1 -> 8193, 2 -> 2, 3 -> 8194, 4 -> 1, ...
\* so that 0 and 1 share slot 1 with different hashes, 0 and 2 use different
\* slots, and 0 and 4 have the same 64-bit hash.
hash_uuid(uuid) ==
    (uuid % 2) * UUID_TABLE_SIZE + 1 + ((uuid \div 2) % 2)

\* UuidDedup::new : vec![0u64; UUID_TABLE_SIZE]
UuidDedupNew == EmptyMap

\* self.table[idx]
TableAt(table, idx) == IF idx \in DOMAIN table THEN table[idx] ELSE 0

\* (hash as usize) & (UUID_TABLE_SIZE - 1), UUID_TABLE_SIZE a power of two
SlotOf(hash) == hash % UUID_TABLE_SIZE

\* a plausible slip: compares the slot index instead of the stored hash
check_and_insert_idx(table, uuid) ==
    LET hash == hash_uuid(uuid)
        idx  == SlotOf(hash)
    IN  IF idx \in DOMAIN table
        THEN [table |-> table, ret |-> FALSE]
        ELSE [table |-> MapPut(table, idx, hash), ret |-> TRUE]

\* UuidDedup::check_and_insert
check_and_insert(table, uuid) ==
    LET hash == hash_uuid(uuid)
        idx  == SlotOf(hash)
    IN  IF TableAt(table, idx) = hash
        THEN [table |-> table, ret |-> FALSE]
        ELSE [table |-> MapPut(table, idx, hash), ret |-> TRUE]

---------------------------------------------------------------------------
(* k4-core/src/shm.rs : ShmMdStore                                         *)

\* A record T of the ring.  Two payload fields make a torn copy visible.
Rec(v) == [a |-> v, b |-> v]

\* zero-initialised memory
ZeroRec == Rec(0)

Fields == {"a", "b"}

\* ShmMdStore::create(symbols, buffer_size): every header starts at -1 and
\* every slot is zeroed.
create(symbols, buffer_size) ==
    [buffer_size |-> buffer_size,
     index |-> [s \in symbols |->
                   [current_index |-> -1,
                    data |-> [i \in 0..(buffer_size - 1) |-> ZeroRec]]]]

\* a plausible slip: the slot is computed from the current index, not next
write_slot_cur(self, symbol, data) ==
    IF symbol \in DOMAIN self.index
    THEN LET hdr  == self.index[symbol]
             next == hdr.current_index + 1
             slot == IF hdr.current_index < 0 THEN 0
                     ELSE hdr.current_index % self.buffer_size
         IN  [self |-> [self EXCEPT !.index[symbol].data[slot] = data,
                                    !.index[symbol].current_index = next],
              ret |-> TRUE]
    ELSE [self |-> self, ret |-> FALSE]

\* a plausible slip: an unknown symbol is written to some known slot
write_unknown(self, symbol, data) ==
    LET sym == IF symbol \in DOMAIN self.index THEN symbol
               ELSE CHOOSE s \in DOMAIN self.index : TRUE
        hdr  == self.index[sym]
        next == hdr.current_index + 1
        slot == next % self.buffer_size
    IN  [self |-> [self EXCEPT !.index[sym].data[slot] = data,
                               !.index[sym].current_index = next],
         ret |-> symbol \in DOMAIN self.index]

\* ShmMdStore::write with no other thread running: load the index, copy the
\* record into slot next % buffer_size, publish next.
write(self, symbol, data) ==
    IF symbol \in DOMAIN self.index
    THEN LET hdr  == self.index[symbol]
             next == hdr.current_index + 1
             slot == next % self.buffer_size
         IN  [self |-> [self EXCEPT !.index[symbol].data[slot] = data,
                                    !.index[symbol].current_index = next],
              ret |-> TRUE]
    ELSE [self |-> self, ret |-> FALSE]

\* ShmMdStore::read_latest with no other thread running
read_latest(self, symbol) ==
    IF symbol \notin DOMAIN self.index THEN None
    ELSE LET hdr == self.index[symbol]
             idx == hdr.current_index
         IN  IF idx < 0 THEN None
             ELSE Some(hdr.data[idx % self.buffer_size])

---------------------------------------------------------------------------
(* Initial values of each part.                                            *)

NoCall == [op |-> "none"]

WriterIdle == [pc |-> "idle"]

ReaderIdle == [pc |-> "idle", ret |-> None]

InitDedupVars ==
    /\ d_upd = UpdateIdDedupNew
    /\ d_uuid = UuidDedupNew
    /\ d_call = [op |-> "none", prev |-> NoCall]

\* the store right after ShmMdStore::create(StoreSymbols, B)
InitShmVars(B) ==
    /\ store = create(StoreSymbols, B)
    /\ s_call = NoCall
    /\ nwrites = [s \in StoreSymbols |-> 0]
    /\ lastw = [s \in StoreSymbols |-> ZeroRec]
    /\ w = WriterIdle
    /\ rd = [r \in 1..MaxReaders |-> ReaderIdle]
    /\ passed = {}

---------------------------------------------------------------------------
(* SpecDedup: the deduplicators called directly, as the unit tests do.     *)

\* what d_call keeps of the call before it
Brief(c) == IF c.op = "none" THEN NoCall
            ELSE [op |-> c.op, arg |-> c.arg, ret |-> c.ret]

\* d.check_and_update(symbol, update_id)
CallCheckAndUpdate ==
    \E symbol \in StoreSymbols, update_id \in Ids :
        LET r == check_and_update(d_upd, symbol, update_id)
        IN  /\ d_upd' = r.self
            /\ d_call' = [op |-> "check_and_update", arg |-> <<symbol, update_id>>,
                          pre |-> d_upd, ret |-> r.ret, prev |-> Brief(d_call)]
            /\ UNCHANGED d_uuid

\* d.check_and_insert(uuid)
CallCheckAndInsert ==
    \E uuid \in Uuids :
        LET r == check_and_insert(d_uuid, uuid)
        IN  /\ d_uuid' = r.table
            /\ d_call' = [op |-> "check_and_insert", arg |-> uuid,
                          pre |-> d_uuid, ret |-> r.ret, prev |-> Brief(d_call)]
            /\ UNCHANGED d_upd

---------------------------------------------------------------------------
(* SpecShm: one thread calling write and read_latest one after the other.  *)

TotalWrites == nwrites["BTCUSDT"] + nwrites["ETHUSDT"]

\* store.write(symbol, &Rec(v))
CallWrite ==
    \E symbol \in AllSymbols, v \in 1..MaxVal :
        LET r == write(store, symbol, Rec(v))
        IN  /\ symbol \in StoreSymbols => TotalWrites < MaxWrites
            /\ store' = r.self
            /\ s_call' = [op |-> "write", symbol |-> symbol, data |-> Rec(v),
                          pre |-> store, ret |-> r.ret]
            /\ nwrites' = IF r.ret /\ symbol \in StoreSymbols
                          THEN [nwrites EXCEPT ![symbol] = @ + 1] ELSE nwrites
            /\ lastw' = IF r.ret /\ symbol \in StoreSymbols
                        THEN [lastw EXCEPT ![symbol] = Rec(v)] ELSE lastw
            /\ passed' = passed \cup {Rec(v)}
            /\ UNCHANGED <<w, rd>>

\* store.read_latest(symbol)
CallReadLatest ==
    \E symbol \in AllSymbols :
        /\ s_call' = [op |-> "read_latest", symbol |-> symbol,
                      pre |-> store, ret |-> read_latest(store, symbol)]
        /\ UNCHANGED <<store, nwrites, lastw, w, rd, passed>>

---------------------------------------------------------------------------
(* SpecShmConc: ShmMdStore with its single writer inside write and readers *)
(* inside read_latest at the same time.  The copy of a record T into or    *)
(* out of a slot (ptr::write / ptr::read) is not atomic: it is modelled    *)
(* field by field, in any order.  The k-th record written is Rec(k).       *)

ConcSymbol == "BTCUSDT"

Readers == 1..MaxReaders

\* a plausible slip: the record is copied onto the slot published last
WriteLoad_cur ==
    /\ w.pc = "idle"
    /\ nwrites[ConcSymbol] < MaxWrites
    /\ LET data == Rec(nwrites[ConcSymbol] + 1)
           cur  == store.index[ConcSymbol].current_index
           next == cur + 1
       IN  /\ w' = [pc |-> "copy", data |-> data, next |-> next,
                    slot |-> IF cur < 0 THEN 0 ELSE cur % store.buffer_size,
                    todo |-> Fields]
           /\ passed' = passed \cup {data}
    /\ UNCHANGED <<store, s_call, nwrites, lastw, rd>>

\* write, line 227-228: load current_index (Relaxed), compute next and slot
WriteLoad ==
    /\ w.pc = "idle"
    /\ nwrites[ConcSymbol] < MaxWrites
    /\ LET data == Rec(nwrites[ConcSymbol] + 1)
           next == store.index[ConcSymbol].current_index + 1
       IN  /\ w' = [pc |-> "copy", data |-> data, next |-> next,
                    slot |-> next % store.buffer_size, todo |-> Fields]
           /\ passed' = passed \cup {data}
    /\ UNCHANGED <<store, s_call, nwrites, lastw, rd>>

\* write, line 231: ptr::write(data_base.add(slot), *data), one field at a time
WriteCopy ==
    /\ w.pc = "copy"
    /\ \E f \in w.todo :
        /\ store' = [store EXCEPT !.index[ConcSymbol].data[w.slot][f] = w.data[f]]
        /\ w' = [w EXCEPT !.todo = @ \ {f}]
    /\ UNCHANGED <<s_call, nwrites, lastw, rd, passed>>

\* write, line 234: current_index.store(next, Release)
WritePublish ==
    /\ w.pc = "copy"
    /\ w.todo = {}
    /\ store' = [store EXCEPT !.index[ConcSymbol].current_index = w.next]
    /\ nwrites' = [nwrites EXCEPT ![ConcSymbol] = @ + 1]
    /\ lastw' = [lastw EXCEPT ![ConcSymbol] = w.data]
    /\ w' = WriterIdle
    /\ UNCHANGED <<s_call, rd, passed>>

\* the highest index whose write has started: the one being copied, else
\* the one published last
Started ==
    IF w.pc = "copy" THEN w.next ELSE store.index[ConcSymbol].current_index

\* read_latest, line 250-254: load current_index (Acquire); None if negative.
\* History kept with the read: `wrapped`, the write that publishes index
\* idx + buffer_size had started when the last field was copied; `pubs`, the
\* records published between the load and the copy of the last field.
ReadLoad(r) ==
    /\ rd[r].pc = "idle"
    /\ LET idx == store.index[ConcSymbol].current_index
       IN  rd' = [rd EXCEPT ![r] =
                     IF idx < 0 THEN [pc |-> "idle", ret |-> None]
                     ELSE [pc |-> "copy", idx |-> idx,
                           slot |-> idx % store.buffer_size,
                           todo |-> Fields, buf |-> ZeroRec,
                           lapped |-> FALSE, wrapped |-> FALSE, pubs |-> 0]]
    /\ UNCHANGED <<store, s_call, nwrites, lastw, w, passed>>

\* read_latest, line 255: ptr::read(data_base.add(slot)), one field at a time
ReadCopy(r) ==
    /\ rd[r].pc = "copy"
    /\ \E f \in rd[r].todo :
        rd' = [rd EXCEPT ![r].buf[f] = store.index[ConcSymbol].data[rd[r].slot][f],
                         ![r].todo = @ \ {f},
                         ![r].lapped = @ \/ (w.pc = "copy" /\ w.slot = rd[r].slot),
                         ![r].wrapped = Started >= rd[r].idx + store.buffer_size,
                         ![r].pubs = store.index[ConcSymbol].current_index - rd[r].idx]
    /\ UNCHANGED <<store, s_call, nwrites, lastw, w, passed>>

\* read_latest returns Some(record)
ReadReturn(r) ==
    /\ rd[r].pc = "copy"
    /\ rd[r].todo = {}
    /\ rd' = [rd EXCEPT ![r] = [pc |-> "idle", ret |-> Some(rd[r].buf),
                                idx |-> rd[r].idx, lapped |-> rd[r].lapped,
                                wrapped |-> rd[r].wrapped, pubs |-> rd[r].pubs]]
    /\ UNCHANGED <<store, s_call, nwrites, lastw, w, passed>>

---------------------------------------------------------------------------
(* k4-md/src/ws_helper.rs + k4-md/src/dedup_worker.rs : one stream.        *)
(* GenericMd never sets its udp field (pipeline.rs:116), so the worker     *)
(* runs with udp = None and the UDP branch of every arm is not taken.      *)

Kinds == {"Bbo", "AggTrade", "Trade", "Depth5"}

\* symbols carried by the records of a stream: one the stores were created
\* with and one they were not
FeedSymbols == {"BTCUSDT", "BTC-USDT"}

Instruments == Kinds \X FeedSymbols

\* the feeds of a run: the venue publishes on two instruments
Feeds == {f \in SUBSET Instruments : Cardinality(f) = 2}

\* the stream configurations: <<custom trade dedup?, agg store configured?>>
\*   binance_ubase with all four stores, binance_ubase without agg store,
\*   bybit_futures (UuidDedup closure, no agg store)
Profiles == {<<FALSE, TRUE>>, <<FALSE, FALSE>>, <<TRUE, FALSE>>}

\* GenericMd::init_shm + start, then run_dedup_loop lines 44-48
InitWorkerVars(custom, agg_configured, f, n_senders) ==
    /\ chan = <<>>
    /\ senders = n_senders
    /\ worker_pc = "recv"
    /\ io = [enq |-> <<>>, deq |-> <<>>, at_close |-> 0]
    /\ bbo_dedup = UpdateIdDedupNew
    /\ agg_dedup = UpdateIdDedupNew
    /\ trade_dedup = UpdateIdDedupNew
    /\ depth5_dedup = UpdateIdDedupNew
    /\ custom_td = IF custom THEN Some(UuidDedupNew) ELSE None
    /\ stores = [k \in Kinds |->
                    IF k = "AggTrade" /\ ~agg_configured THEN None
                    ELSE Some(create(StoreSymbols, MaxB))]
    /\ feed = f
    /\ sent = 0
    /\ submitted = [i \in Instruments |-> <<>>]
    /\ written = [i \in Instruments |-> <<>>]
    /\ last = NoCall

\* a callback that makes room in a full channel by discarding the oldest
\* queued record
Deliver_overwrite ==
    /\ sent < MaxMsgs
    /\ senders > 0
    /\ \E i \in feed, id \in Ids :
        LET msg == [kind |-> i[1], symbol |-> i[2], id |-> id]
        IN  /\ chan' = IF Len(chan) < ChanCap THEN Append(chan, msg)
                                             ELSE Append(Tail(chan), msg)
            /\ io' = [io EXCEPT !.enq = Append(@, msg)]
    /\ sent' = sent + 1
    /\ UNCHANGED <<bbo_dedup, agg_dedup, trade_dedup, depth5_dedup, custom_td,
                   stores, feed, submitted, written, last, senders, worker_pc>>

\* the on_msg callback of run_ws_text_stream (ws_helper.rs:39-45) for one
\* parsed record: tx.try_send(msg); a full channel drops the record.
\* The callback ignores its connection id, so the connections are anonymous.
Deliver ==
    /\ sent < MaxMsgs
    /\ senders > 0
    /\ \E i \in feed, id \in Ids :
        LET msg == [kind |-> i[1], symbol |-> i[2], id |-> id]
        IN  IF Len(chan) < ChanCap
            THEN /\ chan' = Append(chan, msg)
                 /\ io' = [io EXCEPT !.enq = Append(@, msg)]
            ELSE /\ chan' = chan
                 /\ io' = io
    /\ sent' = sent + 1
    /\ UNCHANGED <<bbo_dedup, agg_dedup, trade_dedup, depth5_dedup, custom_td,
                   stores, feed, submitted, written, last, senders, worker_pc>>

\* a plausible slip: the record is written whatever the deduplicator said
publish_always(is_new, shm, sym, id) ==
    IF shm.some
    THEN LET r == write(shm.val, sym, Rec(id))
         IN  [shm |-> Some(r.self), wrote |-> r.ret]
    ELSE [shm |-> shm, wrote |-> FALSE]

\* the body shared by the four arms of run_dedup_loop:
\*   if is_new { if let Some(ref shm) = store { shm.write(sym, rec); } }
\* (the result of write is dropped by the code; wrote records it)
publish(is_new, shm, sym, id) ==
    IF is_new /\ shm.some
    THEN LET r == write(shm.val, sym, Rec(id))
         IN  [shm |-> Some(r.self), wrote |-> r.ret]
    ELSE [shm |-> shm, wrote |-> FALSE]

\* history kept by every arm
Record(msg, is_new, before, p) ==
    LET i == <<msg.kind, msg.symbol>>
    IN  /\ submitted' = [submitted EXCEPT ![i] = Append(@, msg.id)]
        /\ written' = IF p.wrote THEN [written EXCEPT ![i] = Append(@, msg.id)]
                      ELSE written
        /\ last' = [op |-> "recv", msg |-> msg, is_new |-> is_new,
                    before |-> before, wrote |-> p.wrote, pre |-> stores]
        /\ io' = [io EXCEPT !.deq = Append(@, msg)]

\* run_dedup_loop, arm MarketDataMsg::Bbo (lines 54-64)
WorkerBbo ==
    /\ worker_pc = "recv"
    /\ chan # <<>>
    /\ Head(chan).kind = "Bbo"
    /\ LET msg == Head(chan)
           d   == check_and_update(bbo_dedup, msg.symbol, msg.id)
           p   == publish(d.ret, stores["Bbo"], msg.symbol, msg.id)
       IN  /\ bbo_dedup' = d.self
           /\ stores' = [stores EXCEPT !["Bbo"] = p.shm]
           /\ Record(msg, d.ret, last_id(bbo_dedup, msg.symbol), p)
    /\ chan' = Tail(chan)
    /\ UNCHANGED <<agg_dedup, trade_dedup, depth5_dedup, custom_td, feed, sent, senders, worker_pc>>

\* run_dedup_loop, arm MarketDataMsg::AggTrade (lines 65-75)
WorkerAggTrade ==
    /\ worker_pc = "recv"
    /\ chan # <<>>
    /\ Head(chan).kind = "AggTrade"
    /\ LET msg == Head(chan)
           d   == check_and_update(agg_dedup, msg.symbol, msg.id)
           p   == publish(d.ret, stores["AggTrade"], msg.symbol, msg.id)
       IN  /\ agg_dedup' = d.self
           /\ stores' = [stores EXCEPT !["AggTrade"] = p.shm]
           /\ Record(msg, d.ret, last_id(agg_dedup, msg.symbol), p)
    /\ chan' = Tail(chan)
    /\ UNCHANGED <<bbo_dedup, trade_dedup, depth5_dedup, custom_td, feed, sent, senders, worker_pc>>

\* the custom_dedup closure of bybit::build (bybit/mod.rs:77-83):
\* check_and_insert(&format!("{trade_id}")) on the captured UuidDedup
custom_dedup(table, sym, trade_id) == check_and_insert(table, trade_id)

\* run_dedup_loop, arm MarketDataMsg::Trade (lines 76-91)
WorkerTrade ==
    /\ worker_pc = "recv"
    /\ chan # <<>>
    /\ Head(chan).kind = "Trade"
    /\ LET msg == Head(chan)
       IN  IF custom_td.some
           THEN LET c == custom_dedup(custom_td.val, msg.symbol, msg.id)
                    p == publish(c.ret, stores["Trade"], msg.symbol, msg.id)
                IN  /\ custom_td' = Some(c.table)
                    /\ trade_dedup' = trade_dedup
                    /\ stores' = [stores EXCEPT !["Trade"] = p.shm]
                    /\ Record(msg, c.ret, None, p)
           ELSE LET d == check_and_update(trade_dedup, msg.symbol, msg.id)
                    p == publish(d.ret, stores["Trade"], msg.symbol, msg.id)
                IN  /\ trade_dedup' = d.self
                    /\ custom_td' = custom_td
                    /\ stores' = [stores EXCEPT !["Trade"] = p.shm]
                    /\ Record(msg, d.ret, last_id(trade_dedup, msg.symbol), p)
    /\ chan' = Tail(chan)
    /\ UNCHANGED <<bbo_dedup, agg_dedup, depth5_dedup, feed, sent, senders, worker_pc>>

\* a plausible slip: Depth5 records go through the Bookticker deduplicator
WorkerDepth5_shared ==
    /\ worker_pc = "recv"
    /\ chan # <<>>
    /\ Head(chan).kind = "Depth5"
    /\ LET msg == Head(chan)
           d   == check_and_update(bbo_dedup, msg.symbol, msg.id)
           p   == publish(d.ret, stores["Depth5"], msg.symbol, msg.id)
       IN  /\ bbo_dedup' = d.self
           /\ stores' = [stores EXCEPT !["Depth5"] = p.shm]
           /\ Record(msg, d.ret, last_id(bbo_dedup, msg.symbol), p)
    /\ chan' = Tail(chan)
    /\ UNCHANGED <<depth5_dedup, agg_dedup, trade_dedup, custom_td, feed, sent, senders, worker_pc>>

\* run_dedup_loop, arm MarketDataMsg::Depth5 (lines 92-102)
WorkerDepth5 ==
    /\ worker_pc = "recv"
    /\ chan # <<>>
    /\ Head(chan).kind = "Depth5"
    /\ LET msg == Head(chan)
           d   == check_and_update(depth5_dedup, msg.symbol, msg.id)
           p   == publish(d.ret, stores["Depth5"], msg.symbol, msg.id)
       IN  /\ depth5_dedup' = d.self
           /\ stores' = [stores EXCEPT !["Depth5"] = p.shm]
           /\ Record(msg, d.ret, last_id(depth5_dedup, msg.symbol), p)
    /\ chan' = Tail(chan)
    /\ UNCHANGED <<bbo_dedup, agg_dedup, trade_dedup, custom_td, feed, sent, senders, worker_pc>>

\* one Sender of the stream's channel is dropped: GenericMd::start's own
\* handle at the end of the loop body, or a stream task's handle and its
\* callback's clone once GenericMd::stop has aborted the task
\* (pipeline.rs:239-245).  io.at_close keeps how many records were queued
\* when the last one went.
DropSender ==
    /\ senders > 0
    /\ senders' = senders - 1
    /\ io' = [io EXCEPT !.at_close = IF senders = 1 THEN Len(chan) ELSE @]
    /\ UNCHANGED <<chan, bbo_dedup, agg_dedup, trade_dedup, depth5_dedup, custom_td,
                   stores, feed, sent, submitted, written, last, worker_pc>>

\* a loop that leaves as soon as it finds the queue empty
WorkerReturn_early ==
    /\ worker_pc = "recv"
    /\ chan = <<>>
    /\ worker_pc' = "returned"
    /\ UNCHANGED <<chan, bbo_dedup, agg_dedup, trade_dedup, depth5_dedup, custom_td,
                   stores, feed, sent, submitted, written, last, senders, io>>

\* `while let Ok(msg) = rx.recv()` fails (dedup_worker.rs:52): recv() gives
\* Err only on an empty channel with no sender left; the loop ends and
\* run_dedup_loop returns (dedup_worker.rs:104-107).
WorkerReturn ==
    /\ worker_pc = "recv"
    /\ chan = <<>>
    /\ senders = 0
    /\ worker_pc' = "returned"
    /\ UNCHANGED <<chan, bbo_dedup, agg_dedup, trade_dedup, depth5_dedup, custom_td,
                   stores, feed, sent, submitted, written, last, senders, io>>

---------------------------------------------------------------------------
(* k4-core/src/ws/client.rs : WsConnection and connection_loop             *)
(*                                                                         *)
(* ws_pc: "none"        no task spawned yet                                *)
(*        "top"         top of the outer loop (line 129)                   *)
(*        "connecting"  awaiting connect_ws (line 138)                     *)
(*        "subscribing" awaiting the send of subscribe_msg (line 160)      *)
(*        "running"     in the select! of the read/write loop (line 185)   *)
(*        "backoff_fail" in the select! after a failed connect (line 146)  *)
(*        "backoff_disc" in the select! after a disconnect (line 250)      *)
(*        "closed"      the task has returned                              *)
(* The ping_tick future (lines 171-180) loops on interval.tick() and never *)
(* completes, so the select! branch at line 232 is never taken; it has no  *)
(* action here.                                                            *)

InitialBackoffMs == 100

MaxBackoffMs == 30000

Min(a, b) == IF a < b THEN a ELSE b

\* watch::Receiver::changed() is ready: a value was sent after the receiver
\* was created, or the sender is gone (then it resolves to Err)
Signalled == shutdown.sent \/ ~shutdown.tx_alive

\* *shutdown_rx.borrow()
Borrow == shutdown.value

\* history of the task since its start or its last successful connect:
\*   fails  consecutive failed connect_ws calls
\*   waits  backoff waits entered (after a failed connect or a disconnect)
\*   ticks  keep-alive intervals elapsed on the established connection
\*   pings  keep-alive messages sent on the established connection
ZeroHist == [fails |-> 0, waits |-> 0, ticks |-> 0, pings |-> 0]

\* WsConnection::new
InitWsVars(has_sub, has_ping) ==
    /\ ws_cfg = [subscribe_msg |-> has_sub, ping_interval |-> has_ping]
    /\ ws_handle = "new"
    /\ ws_pc = "none"
    /\ backoff = InitialBackoffMs
    /\ shutdown = [value |-> FALSE, sent |-> FALSE, tx_alive |-> FALSE]
    /\ outbound = 0
    /\ ws_hist = ZeroHist

\* WsConnection::start (lines 84-96): watch::channel(false), spawn the task;
\* the task begins with backoff = 100 ms (line 125)
WsStart ==
    /\ ws_handle = "new"
    /\ ws_handle' = "started"
    /\ shutdown' = [value |-> FALSE, sent |-> FALSE, tx_alive |-> TRUE]
    /\ ws_pc' = "top"
    /\ backoff' = InitialBackoffMs
    /\ ws_hist' = ZeroHist
    /\ UNCHANGED <<ws_cfg, outbound>>

\* WsConnection::send (lines 99-104): tx.send(msg).await, waits while full
WsSend ==
    /\ ws_handle = "started"
    /\ ws_pc # "closed"
    /\ outbound < MaxOut
    /\ outbound' = outbound + 1
    /\ UNCHANGED <<ws_cfg, ws_handle, ws_pc, backoff, shutdown, ws_hist>>

\* WsConnection::stop, lines 108-110: take the sender, send(true), drop it
WsStop ==
    /\ ws_handle = "started"
    /\ ws_handle' = "stopping"
    /\ shutdown' = [value |-> TRUE, sent |-> TRUE, tx_alive |-> FALSE]
    /\ UNCHANGED <<ws_cfg, ws_pc, backoff, outbound, ws_hist>>

\* WsConnection::stop, lines 111-113: task.await returns
WsStopReturn ==
    /\ ws_handle = "stopping"
    /\ ws_pc = "closed"
    /\ ws_handle' = "stopped"
    /\ UNCHANGED <<ws_cfg, ws_pc, backoff, shutdown, outbound, ws_hist>>

\* the WsConnection is dropped without stop(): GenericMd::stop aborts the
\* task running run_ws_text_stream (pipeline.rs:239-241), whose local conn
\* is dropped at the pending() await (ws_helper.rs:56-60).  The watch sender
\* is dropped unsent; the JoinHandle is dropped, which detaches the task.
WsDrop ==
    /\ ws_handle = "started"
    /\ ws_handle' = "dropped"
    /\ shutdown' = [shutdown EXCEPT !.tx_alive = FALSE]
    /\ UNCHANGED <<ws_cfg, ws_pc, backoff, outbound, ws_hist>>

\* lines 130-136: return if *shutdown_rx.borrow(), else connect
WsLoopTop ==
    /\ ws_pc = "top"
    /\ ws_pc' = IF Borrow THEN "closed" ELSE "connecting"
    /\ UNCHANGED <<ws_cfg, ws_handle, backoff, shutdown, outbound, ws_hist>>

\* lines 138-143: connect_ws returned Ok; the backoff is reset
WsConnectOk ==
    /\ ws_pc = "connecting"
    /\ backoff' = InitialBackoffMs
    /\ ws_pc' = IF ws_cfg.subscribe_msg THEN "subscribing" ELSE "running"
    /\ ws_hist' = ZeroHist
    /\ UNCHANGED <<ws_cfg, ws_handle, shutdown, outbound>>

\* lines 144-146: connect_ws returned Err
WsConnectErr ==
    /\ ws_pc = "connecting"
    /\ ws_hist.fails < MaxFails
    /\ ws_pc' = "backoff_fail"
    /\ ws_hist' = [ws_hist EXCEPT !.fails = @ + 1, !.waits = @ + 1]
    /\ UNCHANGED <<ws_cfg, ws_handle, backoff, shutdown, outbound>>

\* a plausible slip: the doubled backoff is not capped
WsBackoffElapsed_nocap ==
    /\ ws_pc \in {"backoff_fail", "backoff_disc"}
    /\ backoff' = backoff * 2
    /\ ws_pc' = "top"
    /\ UNCHANGED <<ws_cfg, ws_handle, shutdown, outbound, ws_hist>>

\* lines 147/251 and 150/254: the sleep elapsed; backoff doubles up to the cap
WsBackoffElapsed ==
    /\ ws_pc \in {"backoff_fail", "backoff_disc"}
    /\ backoff' = Min(backoff * 2, MaxBackoffMs)
    /\ ws_pc' = "top"
    /\ UNCHANGED <<ws_cfg, ws_handle, shutdown, outbound, ws_hist>>

\* lines 148/252: shutdown_rx.changed() won the select!; the task returns
WsBackoffShutdown ==
    /\ ws_pc \in {"backoff_fail", "backoff_disc"}
    /\ Signalled
    /\ ws_pc' = "closed"
    /\ UNCHANGED <<ws_cfg, ws_handle, backoff, shutdown, outbound, ws_hist>>

\* lines 158-164: the subscription was sent
WsSubscribeOk ==
    /\ ws_pc = "subscribing"
    /\ ws_pc' = "running"
    /\ UNCHANGED <<ws_cfg, ws_handle, backoff, shutdown, outbound, ws_hist>>

\* lines 160-163: the send failed; continue (back to the top, no wait)
WsSubscribeErr ==
    /\ ws_pc = "subscribing"
    /\ ws_pc' = "top"
    /\ UNCHANGED <<ws_cfg, ws_handle, backoff, shutdown, outbound, ws_hist>>

\* lines 187-191: shutdown_rx.changed() won; close the socket and return
WsRunShutdown ==
    /\ ws_pc = "running"
    /\ Signalled
    /\ ws_pc' = "closed"
    /\ UNCHANGED <<ws_cfg, ws_handle, backoff, shutdown, outbound, ws_hist>>

\* lines 196-206 and 219: a text or binary frame (callback), a ping (pong
\* sent, its result dropped), a pong or raw frame: the loop goes on
WsFrame ==
    /\ ws_pc = "running"
    /\ UNCHANGED wsVars

\* the task leaves the process on a close frame / read error / end of stream
WsDisconnect_exit ==
    /\ ws_pc = "running"
    /\ ws_pc' = "closed"
    /\ UNCHANGED <<ws_cfg, ws_handle, backoff, shutdown, outbound, ws_hist>>

\* lines 207-218 then 249-250: close frame, read error or end of stream
\* break the inner loop; the task waits in the backoff select!
WsDisconnect ==
    /\ ws_pc = "running"
    /\ ws_pc' = "backoff_disc"
    /\ ws_hist' = [ws_hist EXCEPT !.waits = @ + 1]
    /\ UNCHANGED <<ws_cfg, ws_handle, backoff, shutdown, outbound>>

\* lines 224-229: a caller text is taken from outbound_rx and sent
WsOutboundOk ==
    /\ ws_pc = "running"
    /\ outbound > 0
    /\ outbound' = outbound - 1
    /\ UNCHANGED <<ws_cfg, ws_handle, ws_pc, backoff, shutdown, ws_hist>>

\* lines 225-228: the send failed; break
WsOutboundErr ==
    /\ ws_pc = "running"
    /\ outbound > 0
    /\ outbound' = outbound - 1
    /\ ws_pc' = "backoff_disc"
    /\ ws_hist' = [ws_hist EXCEPT !.waits = @ + 1]
    /\ UNCHANGED <<ws_cfg, ws_handle, backoff, shutdown>>

\* lines 167-181 and 232: with ping_interval configured, the interval of the
\* ping_tick future elapses.  The future is `loop { interval.tick().await }`:
\* polled by the select!, it takes the tick and awaits the next one; it never
\* completes, so the select! arm at lines 232-244 is not entered and nothing
\* is sent on the socket.
WsPingTick ==
    /\ ws_pc = "running"
    /\ ws_cfg.ping_interval
    /\ ws_hist.ticks < MaxTicks
    /\ ws_hist' = [ws_hist EXCEPT !.ticks = @ + 1]
    /\ UNCHANGED <<ws_cfg, ws_handle, ws_pc, backoff, shutdown, outbound>>

\* the steps of the connection task
WsTask ==
    \/ WsLoopTop
    \/ WsConnectOk
    \/ WsConnectErr
    \/ WsBackoffElapsed
    \/ WsBackoffShutdown
    \/ WsSubscribeOk
    \/ WsSubscribeErr
    \/ WsRunShutdown
    \/ WsFrame
    \/ WsDisconnect
    \/ WsOutboundOk
    \/ WsOutboundErr
    \/ WsPingTick

---------------------------------------------------------------------------
(* k4-core/src/latency.rs : LatencyCollector                               *)
(* k4-core/src/ws/redundant.rs : RedundantWsClient                         *)
(* A Vec is a function on 0..len-1, so that slots are numbered as in the   *)
(* code.                                                                   *)

VLen(v) == Cardinality(DOMAIN v)

VPush(v, x) == [i \in 0..VLen(v) |-> IF i < VLen(v) THEN v[i] ELSE x]

EmptyVec == [i \in {} |-> 0]

\* identifiers a caller may pass to record_latency
ConnIds == 0..(MaxConns + MaxEvals - 1)

BIN_WIDTH_US == 10

NUM_BINS == 3000

\* u64::MAX, the initial min.  It only has to exceed every sample; it is
\* stood for by the largest integer the model checker represents.
U64_MAX == 2147483647

\* self.bins[i]; the vector is kept sparsely, bins never incremented hold 0
BinAt(lc, i) == IF i \in DOMAIN lc.bins THEN lc.bins[i] ELSE 0

\* LatencyCollector::new
LatencyCollectorNew ==
    [bins |-> EmptyMap, count |-> 0, sum |-> 0, min |-> U64_MAX, max |-> 0]

\* a plausible slip: the sample is clamped before it enters min, max and sum
record_clamped(lc, latency_us) ==
    LET v   == IF latency_us > NUM_BINS * BIN_WIDTH_US - 1
               THEN NUM_BINS * BIN_WIDTH_US - 1 ELSE latency_us
        bin == v \div BIN_WIDTH_US
    IN  [bins  |-> MapPut(lc.bins, bin, BinAt(lc, bin) + 1),
         count |-> lc.count + 1,
         sum   |-> lc.sum + v,
         min   |-> IF v < lc.min THEN v ELSE lc.min,
         max   |-> IF v > lc.max THEN v ELSE lc.max]

\* LatencyCollector::record.  The arithmetic is u64; the counts and sums of
\* the model stay far below 2^64, so no addition wraps.
record(lc, latency_us) ==
    LET b   == latency_us \div BIN_WIDTH_US
        bin == IF b < NUM_BINS - 1 THEN b ELSE NUM_BINS - 1
    IN  [bins  |-> MapPut(lc.bins, bin, BinAt(lc, bin) + 1),
         count |-> lc.count + 1,
         sum   |-> lc.sum + latency_us,
         min   |-> IF latency_us < lc.min THEN latency_us ELSE lc.min,
         max   |-> IF latency_us > lc.max THEN latency_us ELSE lc.max]

\* LatencyCollector::reset
reset(lc) == LatencyCollectorNew

\* LatencyCollector::stats: None without samples, else avg_us = sum / count,
\* kept as the fraction num / den
stats(lc) ==
    IF lc.count = 0 THEN None
    ELSE Some([num |-> lc.sum, den |-> lc.count])

\* the collector right after LatencyCollector::new()
InitLatVars ==
    /\ collector = LatencyCollectorNew
    /\ samples = <<>>

\* latencies in microseconds given to record: around a bin edge, around the
\* last bin's lower edge, and beyond the histogram's range
LatSamples == {0, 9, 10, 29989, 29990, 29999, 30000, 50000}

\* collector.record(latency_us)
CallRecord ==
    /\ Len(samples) < MaxRecords
    /\ \E latency_us \in LatSamples :
        /\ collector' = record(collector, latency_us)
        /\ samples' = Append(samples, latency_us)

\* collector.reset()
CallReset ==
    /\ collector' = reset(collector)
    /\ samples' = <<>>

\* a > b on averages
AvgGt(a, b) == a.num * b.den > b.num * a.den

\* a plausible slip: worst_idx starts at the first slot instead of None
find_worst_first(lcs) ==
    LET F[n \in 0..VLen(lcs)] ==
            IF n = 0
            THEN [worst_idx |-> Some(0), worst_avg |-> [num |-> 0, den |-> 1]]
            ELSE LET st == stats(lcs[n - 1])
                 IN  IF st.some /\ AvgGt(st.val, F[n - 1].worst_avg)
                     THEN [worst_idx |-> Some(n - 1), worst_avg |-> st.val]
                     ELSE F[n - 1]
    IN  F[VLen(lcs)].worst_idx

\* evaluate_and_reset lines 78-93: worst_idx = None, worst_avg = 0.0, then for
\* each collector with stats: if avg_us > worst_avg, take it
find_worst(lcs) ==
    LET F[n \in 0..VLen(lcs)] ==
            IF n = 0
            THEN [worst_idx |-> None, worst_avg |-> [num |-> 0, den |-> 1]]
            ELSE LET st == stats(lcs[n - 1])
                 IN  IF st.some /\ AvgGt(st.val, F[n - 1].worst_avg)
                     THEN [worst_idx |-> Some(n - 1), worst_avg |-> st.val]
                     ELSE F[n - 1]
    IN  F[VLen(lcs)].worst_idx

\* a plausible slip: < instead of <=
replacement_disabled_lt(conns) == VLen(conns) < 1

\* evaluate_and_reset lines 73-75: if self.connections.len() <= 1 { return None }
replacement_disabled(conns) == VLen(conns) <= 1

\* a plausible slip: the replacement is pushed instead of put into the slot
install_push(conns, idx, new_conn) == VPush(conns, new_conn)

\* evaluate_and_reset line 114: self.connections[idx] = new_conn
install(conns, idx, new_conn) == [conns EXCEPT ![idx] = new_conn]

\* a plausible slip: the connection keeps the id of base_config
NewConn_base(id) == [id |-> 0, state |-> "started"]

\* WsConnection::new(config with id) followed by start
NewConn(id) == [id |-> id, state |-> "started"]

\* the state a call starts from
RedSnapshot ==
    [connections |-> connections, latency_collectors |-> latency_collectors,
     next_conn_id |-> next_conn_id]

\* samples the collectors hold
TotalSamples ==
    LET F[n \in 0..VLen(latency_collectors)] ==
            IF n = 0 THEN 0 ELSE F[n - 1] + latency_collectors[n - 1].count
    IN  F[VLen(latency_collectors)]

\* RedundantWsClient::new (lines 41-49)
InitRedVars(n) ==
    /\ conn_count = n
    /\ connections = EmptyVec
    /\ latency_collectors = [i \in 0..(n - 1) |-> LatencyCollectorNew]
    /\ next_conn_id = 0
    /\ r_phase = "new"
    /\ r_pc = [pc |-> "idle"]
    /\ r_evals = 0
    /\ r_call = NoCall

\* RedundantWsClient::start (lines 52-56) with add_and_start_connection
\* (lines 141-153), conn_count times
RedStart ==
    /\ r_phase = "new"
    /\ r_pc.pc = "idle"
    /\ connections' = [i \in 0..(conn_count - 1) |-> NewConn(next_conn_id + i)]
    /\ next_conn_id' = next_conn_id + conn_count
    /\ r_phase' = "started"
    /\ r_call' = [op |-> "start"]
    /\ UNCHANGED <<conn_count, latency_collectors, r_pc, r_evals>>

\* RedundantWsClient::record_latency (lines 59-63)
RecordLatency ==
    /\ r_pc.pc = "idle"
    /\ r_phase # "stopped"
    /\ TotalSamples < MaxSamples
    /\ \E conn_idx \in ConnIds, latency_us \in 0..MaxLatency :
        /\ latency_collectors' =
              IF conn_idx \in DOMAIN latency_collectors
              THEN [latency_collectors EXCEPT
                       ![conn_idx] = record(@, latency_us)]
              ELSE latency_collectors
        /\ r_call' = [op |-> "record_latency", conn_idx |-> conn_idx,
                      latency_us |-> latency_us, pre |-> RedSnapshot]
    /\ UNCHANGED <<conn_count, connections, next_conn_id, r_phase, r_pc, r_evals>>

\* evaluate_and_reset, from its start to its first await or its return
\* (lines 73-98, and 120-125 when nothing is replaced)
EvalBegin ==
    /\ r_pc.pc = "idle"
    /\ r_evals < MaxEvals
    /\ r_evals' = r_evals + 1
    /\ IF replacement_disabled(connections)
       THEN /\ r_call' = [op |-> "evaluate_and_reset", ret |-> None,
                          pre |-> RedSnapshot]
            /\ UNCHANGED <<latency_collectors, r_pc>>
       ELSE LET worst_idx == find_worst(latency_collectors)
            IN  IF worst_idx.some /\ VLen(connections) > 1
                THEN /\ r_pc' = [pc |-> "stop", idx |-> worst_idx.val,
                                 pre |-> RedSnapshot]
                     /\ r_call' = [op |-> "pending"]
                     /\ UNCHANGED latency_collectors
                ELSE /\ latency_collectors' =
                            [i \in DOMAIN latency_collectors |->
                                reset(latency_collectors[i])]
                     /\ r_call' = [op |-> "evaluate_and_reset", ret |-> None,
                                   pre |-> RedSnapshot]
                     /\ UNCHANGED r_pc
    /\ UNCHANGED <<conn_count, connections, next_conn_id, r_phase>>

\* evaluate_and_reset lines 100-102: conn.stop().await on the chosen slot
EvalStop ==
    /\ r_pc.pc = "stop"
    /\ connections' =
          IF r_pc.idx \in DOMAIN connections
          THEN [connections EXCEPT ![r_pc.idx].state = "stopped"]
          ELSE connections
    /\ r_pc' = [r_pc EXCEPT !.pc = "stopped"]
    /\ UNCHANGED <<conn_count, latency_collectors, next_conn_id, r_phase,
                   r_evals, r_call>>

\* evaluate_and_reset lines 104-116: reset the slot's collector, allocate an
\* identifier, start the replacement, put it into the slot, return Some(idx)
EvalReplace ==
    /\ r_pc.pc = "stopped"
    /\ latency_collectors' =
          IF r_pc.idx \in DOMAIN latency_collectors
          THEN [latency_collectors EXCEPT ![r_pc.idx] = reset(@)]
          ELSE latency_collectors
    /\ next_conn_id' = next_conn_id + 1
    /\ connections' = install(connections, r_pc.idx, NewConn(next_conn_id))
    /\ r_call' = [op |-> "evaluate_and_reset", ret |-> Some(r_pc.idx),
                  pre |-> r_pc.pre]
    /\ r_pc' = [pc |-> "idle"]
    /\ UNCHANGED <<conn_count, r_phase, r_evals>>

\* RedundantWsClient::stop (lines 129-134): stop every connection, clear
RedStop ==
    /\ r_phase = "started"
    /\ r_pc.pc = "idle"
    /\ connections' = EmptyVec
    /\ r_phase' = "stopped"
    /\ r_call' = [op |-> "stop"]
    /\ UNCHANGED <<conn_count, latency_collectors, next_conn_id, r_pc, r_evals>>

---------------------------------------------------------------------------
(* k4-md/src/bybit/order_book.rs : OrderBook<N>                            *)
(*                                                                         *)
(* A level [price, volume] is the pair <<price, volume>>; a side is the    *)
(* sequence of its levels, best first (Vec index i is position i + 1).     *)
(* Prices and volumes are integers on a grid of half a tolerance, so that  *)
(* two different prices may still match within PRICE_EPS.                  *)

\* PRICE_EPS = 1e-10, in units of the price grid
PRICE_EPS == 2

\* the literal 5 of get_depth5
DEPTH == 5

Abs(x) == IF x < 0 THEN -x ELSE x

\* levels.iter().position(|l| pred(l)): the first position, 0 for None
Position(levels, pred(_)) ==
    IF \E i \in 1..Len(levels) : pred(levels[i])
    THEN CHOOSE i \in 1..Len(levels) :
            /\ pred(levels[i])
            /\ \A j \in 1..(i - 1) : ~pred(levels[j])
    ELSE 0

\* Vec::remove(idx)
RemoveAt(levels, idx) ==
    SubSeq(levels, 1, idx - 1) \o SubSeq(levels, idx + 1, Len(levels))

\* Vec::insert(pos, x)
InsertAt(levels, pos, x) ==
    SubSeq(levels, 1, pos - 1) \o <<x>> \o SubSeq(levels, pos, Len(levels))

\* Vec::pop()
Pop(levels) == SubSeq(levels, 1, Len(levels) - 1)

\* &slice[..slice.len().min(n)]
Take(levels, n) == SubSeq(levels, 1, Min(Len(levels), n))

\* a plausible slip: volume 0 on a matching level stores the 0 instead of
\* removing the level
update_side_desc_keep(levels, price, vol, max_levels) ==
    LET Match(l) == Abs(l[1] - price) < PRICE_EPS
        Lower(l) == l[1] < price
        idx == Position(levels, Match)
        p   == Position(levels, Lower)
        pos == IF p = 0 THEN Len(levels) + 1 ELSE p
        ins == InsertAt(levels, pos, <<price, vol>>)
    IN  IF idx # 0 THEN [levels EXCEPT ![idx] = <<@[1], vol>>]
        ELSE IF vol > 0
             THEN IF Len(ins) > max_levels THEN Pop(ins) ELSE ins
             ELSE levels

\* update_side_desc: one (price, vol) applied to the bid side
update_side_desc(levels, price, vol, max_levels) ==
    LET Match(l) == Abs(l[1] - price) < PRICE_EPS
        Lower(l) == l[1] < price
        idx == Position(levels, Match)
        p   == Position(levels, Lower)
        pos == IF p = 0 THEN Len(levels) + 1 ELSE p
        ins == InsertAt(levels, pos, <<price, vol>>)
    IN  IF idx # 0
        THEN IF vol = 0 THEN RemoveAt(levels, idx)
             ELSE [levels EXCEPT ![idx] = <<@[1], vol>>]
        ELSE IF vol > 0
             THEN IF Len(ins) > max_levels THEN Pop(ins) ELSE ins
             ELSE levels

\* a plausible slip: a new ask level is pushed at the end
update_side_asc_push(levels, price, vol, max_levels) ==
    LET Match(l)  == Abs(l[1] - price) < PRICE_EPS
        idx == Position(levels, Match)
        ins == Append(levels, <<price, vol>>)
    IN  IF idx # 0
        THEN IF vol = 0 THEN RemoveAt(levels, idx)
             ELSE [levels EXCEPT ![idx] = <<@[1], vol>>]
        ELSE IF vol > 0
             THEN IF Len(ins) > max_levels THEN Pop(ins) ELSE ins
             ELSE levels

\* update_side_asc: one (price, vol) applied to the ask side
update_side_asc(levels, price, vol, max_levels) ==
    LET Match(l)  == Abs(l[1] - price) < PRICE_EPS
        Higher(l) == l[1] > price
        idx == Position(levels, Match)
        p   == Position(levels, Higher)
        pos == IF p = 0 THEN Len(levels) + 1 ELSE p
        ins == InsertAt(levels, pos, <<price, vol>>)
    IN  IF idx # 0
        THEN IF vol = 0 THEN RemoveAt(levels, idx)
             ELSE [levels EXCEPT ![idx] = <<@[1], vol>>]
        ELSE IF vol > 0
             THEN IF Len(ins) > max_levels THEN Pop(ins) ELSE ins
             ELSE levels

\* slice::sort_by (stable) with the comparator of set_snapshot: descending
\* by price when desc, ascending otherwise
sort_by(levels, desc) ==
    LET After(l, x) == IF desc THEN l[1] < x[1] ELSE l[1] > x[1]
        F[n \in 0..Len(levels)] ==
            IF n = 0 THEN <<>>
            ELSE LET x    == levels[n]
                     Aft(l) == After(l, x)
                     p    == Position(F[n - 1], Aft)
                 IN  InsertAt(F[n - 1], IF p = 0 THEN n ELSE p, x)
    IN  F[Len(levels)]

\* OrderBook::new
OrderBookNew == [bids |-> <<>>, asks |-> <<>>]

\* OrderBook::set_snapshot: each side is cut to its first N levels, then
\* sorted
set_snapshot(self, N, bids, asks) ==
    [bids |-> sort_by(Take(bids, N), TRUE),
     asks |-> sort_by(Take(asks, N), FALSE)]

\* a plausible slip: the volume of a delta is added to the level's volume
update_add(self, N, bids, asks) ==
    LET Add(levels, price, vol) ==
            [i \in 1..Len(levels) |->
                IF Abs(levels[i][1] - price) < PRICE_EPS
                THEN <<levels[i][1], levels[i][2] + vol>> ELSE levels[i]]
        B[n \in 0..Len(bids)] ==
            IF n = 0 THEN self.bids
            ELSE IF bids[n][2] > 0 /\ \E i \in 1..Len(B[n - 1]) :
                        Abs(B[n - 1][i][1] - bids[n][1]) < PRICE_EPS
                 THEN Add(B[n - 1], bids[n][1], bids[n][2])
                 ELSE update_side_desc(B[n - 1], bids[n][1], bids[n][2], N)
        A[n \in 0..Len(asks)] ==
            IF n = 0 THEN self.asks
            ELSE update_side_asc(A[n - 1], asks[n][1], asks[n][2], N)
    IN  [bids |-> B[Len(bids)], asks |-> A[Len(asks)]]

\* OrderBook::update: the bid levels in order, then the ask levels in order
update(self, N, bids, asks) ==
    LET B[n \in 0..Len(bids)] ==
            IF n = 0 THEN self.bids
            ELSE update_side_desc(B[n - 1], bids[n][1], bids[n][2], N)
        A[n \in 0..Len(asks)] ==
            IF n = 0 THEN self.asks
            ELSE update_side_asc(A[n - 1], asks[n][1], asks[n][2], N)
    IN  [bids |-> B[Len(bids)], asks |-> A[Len(asks)]]

\* OrderBook::get_depth5: the first five levels of each side, the arrays
\* padded with 0, and the level counts
get_depth5(self) ==
    LET bid_levels == Min(Len(self.bids), DEPTH)
        ask_levels == Min(Len(self.asks), DEPTH)
    IN  [bid_prices |-> [i \in 1..DEPTH |-> IF i <= bid_levels THEN self.bids[i][1] ELSE 0],
         bid_vols   |-> [i \in 1..DEPTH |-> IF i <= bid_levels THEN self.bids[i][2] ELSE 0],
         ask_prices |-> [i \in 1..DEPTH |-> IF i <= ask_levels THEN self.asks[i][1] ELSE 0],
         ask_vols   |-> [i \in 1..DEPTH |-> IF i <= ask_levels THEN self.asks[i][2] ELSE 0],
         bid_level  |-> bid_levels,
         ask_level  |-> ask_levels]

\* OrderBook::<N>::new()
InitBookVars(N) ==
    /\ book_n = N
    /\ book = OrderBookNew
    /\ b_call = NoCall

\* prices of the deltas: 1 and 2 match within PRICE_EPS, the others do not
BookPrices == {1, 2, 4, 6}

\* volumes of the deltas
BookVols == {-1, 0, 1, 2}

\* the level lists of a delta
Deltas ==
    UNION {[1..n -> BookPrices \X BookVols] : n \in 1..MaxDelta}

\* the book of a stream when a delta arrives: the stream's first message
\* is a snapshot (bybit/mod.rs:185-189), here of at most N levels of
\* different prices, volume 1 each, the same for both sides
InitBookSnapshot(N) ==
    /\ book_n = N
    /\ \E q \in UNION {[1..n -> BookPrices] : n \in 0..N} :
        /\ \A i, j \in DOMAIN q : q[i] = q[j] => i = j
        /\ LET levels == [i \in DOMAIN q |-> <<q[i], 1>>]
           IN  book = set_snapshot(OrderBookNew, N, levels, levels)
    /\ b_call = NoCall

\* book.update(&delta, &delta): the same levels are given for both sides
CallUpdate ==
    /\ b_call.op = "none"
    /\ \E delta \in Deltas :
        /\ book' = update(book, book_n, delta, delta)
        /\ b_call' = [op |-> "update", bids |-> delta, asks |-> delta, pre |-> book]
    /\ UNCHANGED book_n

\* prices of a snapshot, pairwise apart by PRICE_EPS or more
SnapPrices == {2 * i : i \in 1..(DEPTH + 2)}

\* the level lists of a snapshot: more than DEPTH levels of different
\* prices in any order, the volume of a level telling its price
SnapInputs ==
    {q \in UNION {[1..n -> SnapPrices] : n \in (DEPTH + 1)..(DEPTH + 2)} :
        \A i, j \in DOMAIN q : q[i] = q[j] => i = j}

SnapLevels(q) == [i \in DOMAIN q |-> <<q[i], 100 - q[i]>>]

\* book.set_snapshot(&levels, &levels)
CallSetSnapshot ==
    /\ b_call.op = "none"
    /\ \E q \in SnapInputs :
        /\ book' = set_snapshot(book, book_n, SnapLevels(q), SnapLevels(q))
        /\ b_call' = [op |-> "set_snapshot", bids |-> SnapLevels(q),
                      asks |-> SnapLevels(q)]
    /\ UNCHANGED book_n

\* book.get_depth5() after the snapshot
CallGetDepth5 ==
    /\ b_call.op = "set_snapshot"
    /\ b_call' = [op |-> "get_depth5", bids |-> b_call.bids, asks |-> b_call.asks,
                  ret |-> get_depth5(book)]
    /\ UNCHANGED <<book_n, book>>

\* prices of the level lists given to a book in a sequence of calls: 1 and 2
\* match within PRICE_EPS, 4 matches neither
SeqPrices == {1, 2, 4}

\* the deltas of a sequence of calls: any prices in any order, repeated
\* prices included, each level removed (volume 0) or set to volume 1
SeqDeltas ==
    UNION {[1..n -> SeqPrices \X {0, 1}] : n \in 1..MaxDelta}

\* the snapshots of a sequence of calls for a book of N levels: up to N + 1
\* levels of volume 2, any prices in any order, repeated prices included
SeqSnapshots(N) ==
    UNION {[1..n -> SeqPrices \X {2}] : n \in 0..(N + 1)}

\* update_side_* drops a level for capacity while it applies (price, vol)
Drops(levels, price, vol, max_levels) ==
    /\ \A i \in 1..Len(levels) : ~(Abs(levels[i][1] - price) < PRICE_EPS)
    /\ vol > 0
    /\ Len(levels) + 1 > max_levels

\* some level of the delta makes update drop a level of the book
DropsAny(self, N, delta) ==
    \E k \in 1..Len(delta) :
        LET before == update(self, N, SubSeq(delta, 1, k - 1),
                                      SubSeq(delta, 1, k - 1))
        IN  \/ Drops(before.bids, delta[k][1], delta[k][2], N)
            \/ Drops(before.asks, delta[k][1], delta[k][2], N)

\* the levels of each side of the book have prices at least PRICE_EPS apart,
\* and every price of the delta is equal to or at least PRICE_EPS apart from
\* every price of the book and of the delta, as prices on one tick grid are
OnGrid(self, delta) ==
    LET Apart(side) == \A i, j \in 1..Len(side) :
                          i # j => Abs(side[i][1] - side[j][1]) >= PRICE_EPS
        ps == {self.bids[i][1] : i \in 1..Len(self.bids)}
                 \cup {self.asks[i][1] : i \in 1..Len(self.asks)}
                 \cup {delta[i][1] : i \in 1..Len(delta)}
    IN  /\ Apart(self.bids)
        /\ Apart(self.asks)
        /\ \A p, q \in ps : p = q \/ Abs(p - q) >= PRICE_EPS

\* book.set_snapshot(&levels, &levels), at any time
SeqSetSnapshot ==
    \E levels \in SeqSnapshots(book_n) :
        /\ book' = set_snapshot(book, book_n, levels, levels)
        /\ b_call' = [op |-> "set_snapshot", full |-> Len(levels) > book_n]
    /\ UNCHANGED book_n

\* book.update(&delta, &delta), at any time
SeqUpdate ==
    \E delta \in SeqDeltas :
        /\ book' = update(book, book_n, delta, delta)
        /\ b_call' = [op |-> "update", full |-> DropsAny(book, book_n, delta)]
    /\ UNCHANGED book_n

\* book.update(&delta, &delta) twice in succession, as when two connections
\* deliver the same delta to the decoder
SeqUpdateTwice ==
    \E delta \in SeqDeltas :
        LET once == update(book, book_n, delta, delta)
        IN  /\ book' = update(once, book_n, delta, delta)
            /\ b_call' = [op |-> "update_twice", once |-> once,
                          changed |-> once # book,
                          full |-> DropsAny(book, book_n, delta),
                          on_grid |-> OnGrid(book, delta)]
    /\ UNCHANGED book_n

---------------------------------------------------------------------------
(* k4-md/src/bitget/json_parser.rs : parse_trades                          *)
(*                                                                         *)
(* An element of the `data` array is kept by its tradeId (None when the    *)
(* field is missing or no number) and by whether its other fields parse.   *)

TradeItems ==
    {[tradeId |-> Some(i), rest |-> TRUE] : i \in Ids}
        \cup {[tradeId |-> None, rest |-> TRUE], [tradeId |-> Some(1), rest |-> FALSE]}

\* the `data` arrays of a message
TradeArrays == UNION {[1..n -> TradeItems] : n \in 0..MaxBatch}

\* parse_single_trade: None as soon as one field fails to parse
parse_single_trade(item) ==
    IF item.rest /\ item.tradeId.some THEN Some([trade_id |-> item.tradeId.val])
    ELSE None

\* a plausible slip: the array is walked front to back
parse_trades_fwd(data) ==
    LET F[n \in 0..Len(data)] ==
            IF n = 0 THEN <<>>
            ELSE LET t == parse_single_trade(data[n])
                 IN  IF t.some THEN Append(F[n - 1], t.val) ELSE F[n - 1]
    IN  F[Len(data)]

\* parse_trades: data.iter().rev(), pushing every element that parses
parse_trades(data) ==
    LET F[n \in 0..Len(data)] ==
            IF n = 0 THEN <<>>
            ELSE LET t == parse_single_trade(data[Len(data) + 1 - n])
                 IN  IF t.some THEN Append(F[n - 1], t.val) ELSE F[n - 1]
    IN  F[Len(data)]

\* a message with this data array is about to be decoded; the worker's
\* trade dedup is as earlier messages left it
InitBitget(data, dedup) ==
    bitget = [pc |-> "recv", data |-> data, out |-> <<>>, fed |-> 0,
              dedup0 |-> dedup, trade_dedup |-> dedup, accepted |-> <<>>]

\* parse_message on the stream's callback: the records go to the channel in
\* the order parse_trades returned them (ws_helper.rs:40-44)
BitgetParse ==
    /\ bitget.pc = "recv"
    /\ bitget' = [bitget EXCEPT !.pc = "sent", !.out = parse_trades(bitget.data)]

\* run_dedup_loop, Trade arm with the standard dedup (bitget/mod.rs:47),
\* for the next record of the channel
BitgetWorkerTrade ==
    /\ bitget.pc = "sent"
    /\ bitget.fed < Len(bitget.out)
    /\ LET t == bitget.out[bitget.fed + 1]
           r == check_and_update(bitget.trade_dedup, "BTCUSDT", t.trade_id)
       IN  bitget' = [bitget EXCEPT !.fed = @ + 1,
                                    !.trade_dedup = r.self,
                                    !.accepted = Append(@, r.ret)]

---------------------------------------------------------------------------
(* k4-md/src/binance/json_parser.rs : parse_message                        *)
(*                                                                         *)
(* A JSON object is kept by the fields the decoders look at: e, s and ps   *)
(* (None when absent; "null" is the JSON null), the record's id field      *)
(* (a / u / t), and whether every other field the decoder needs parses.    *)

JsonMessages ==
    [e    : {None} \cup {Some(x) : x \in {"aggTrade", "bookTicker", "trade",
                                          "depthUpdate", "kline", "null"}},
     s    : {None, Some("BTCUSDT"), Some("null")},
     ps   : {None, Some("BTCUSD"), Some("null")},
     id   : {None} \cup {Some(i) : i \in Ids},
     rest : BOOLEAN]

\* v.get("s")?.as_str()?
SymOf(v) == IF v.s.some /\ v.s.val # "null" THEN Some(v.s.val) ELSE None

\* a plausible slip: the product type of a trade is always Spot
parse_trade_spot(v) ==
    IF SymOf(v).some /\ v.id.some /\ v.rest
    THEN Some([kind |-> "Trade", symbol |-> SymOf(v).val, product_type |-> "Spot",
               id |-> v.id.val])
    ELSE None

\* parse_agg_trade
parse_agg_trade(v) ==
    IF SymOf(v).some /\ v.id.some /\ v.rest
    THEN Some([kind |-> "AggTrade", symbol |-> SymOf(v).val,
               product_type |-> IF v.ps.some THEN "Futures" ELSE "Spot",
               id |-> v.id.val])
    ELSE None

\* parse_book_ticker
parse_book_ticker(v) ==
    IF SymOf(v).some /\ v.id.some /\ v.rest
    THEN Some([kind |-> "Bbo", symbol |-> SymOf(v).val,
               product_type |-> IF v.ps.some THEN "Futures" ELSE "Spot",
               id |-> v.id.val])
    ELSE None

\* parse_trade
parse_trade(v) ==
    IF SymOf(v).some /\ v.id.some /\ v.rest
    THEN Some([kind |-> "Trade", symbol |-> SymOf(v).val,
               product_type |-> IF v.ps.some THEN "Futures" ELSE "Spot",
               id |-> v.id.val])
    ELSE None

\* parse_depth_update: product_type is the literal ProductType::Futures
parse_depth_update(v) ==
    IF SymOf(v).some /\ v.id.some /\ v.rest
    THEN Some([kind |-> "Depth5", symbol |-> SymOf(v).val,
               product_type |-> "Futures", id |-> v.id.val])
    ELSE None

\* parse_message of the Binance JSON decoder
binance_parse_message(v) ==
    IF ~v.e.some \/ v.e.val = "null" THEN None
    ELSE CASE v.e.val = "aggTrade"    -> parse_agg_trade(v)
           [] v.e.val = "bookTicker"  -> parse_book_ticker(v)
           [] v.e.val = "trade"       -> parse_trade(v)
           [] v.e.val = "depthUpdate" -> parse_depth_update(v)
           [] OTHER                   -> None

\* a text frame holding the object v has arrived
InitBinance(v) == binance = [pc |-> "recv", v |-> v, ret |-> None]

\* parse_message(text)
BinanceParse ==
    /\ binance.pc = "recv"
    /\ binance' = [binance EXCEPT !.pc = "done", !.ret = binance_parse_message(binance.v)]

---------------------------------------------------------------------------
(* k4-md/src/udp/mod.rs : UdpMd, and k4-core/src/udp.rs : UdpReceiver      *)

\* the eight stores of UdpMd: <<"spot" | "ubase", kind>>
UdpStoreKeys == {"spot", "ubase"} \X Kinds

\* config.spot_symbols / config.ubase_symbols
UdpSymbols(market) == IF market = "spot" THEN {"BTCUSDT"} ELSE {"BTCUSDT", "ETHUSDT"}

\* the stores init_shm creates: all eight; the futures ones only (no spot
\* symbols); all but the spot trade store (no name configured)
UdpProfiles ==
    {UdpStoreKeys,
     {k \in UdpStoreKeys : k[1] = "ubase"},
     UdpStoreKeys \ {<<"spot", "Trade">>}}

\* the datagrams: shorter than 2 bytes; an unknown message type; a known
\* type whose payload rkyv rejects; a known type with a valid record
Datagrams ==
    {[msg_type |-> "short"], [msg_type |-> "OrderUpdate"]}
        \cup {[msg_type |-> k, decoded |-> None] : k \in Kinds}
        \cup {[msg_type |-> k,
               decoded |-> Some([product_type |-> p, symbol |-> sym, id |-> i])] :
                 k \in Kinds, p \in {"Spot", "Futures", "UMargin"},
                 sym \in StoreSymbols, i \in 1..2}

\* UdpMd::init_shm then start: the configured stores are created, nothing
\* has arrived
InitUdp(configured) ==
    udp = [stores  |-> [k \in UdpStoreKeys |->
                          IF k \in configured
                          THEN Some(create(UdpSymbols(k[1]), 2)) ELSE None],
           log     |-> [k \in UdpStoreKeys |-> <<>>],
           arrived |-> <<>>]

\* a plausible slip: a record is not written again when its id is not above
\* the id of the last record written to the store
on_record_dedup(u, kind, rec) ==
    LET key == <<IF rec.product_type = "Spot" THEN "spot" ELSE "ubase", kind>>
        st  == u.stores[key]
    IN  IF st.some /\ (u.log[key] = <<>> \/ u.log[key][Len(u.log[key])].id < rec.id)
        THEN LET r == write(st.val, rec.symbol, rec)
             IN  [u EXCEPT !.stores[key] = Some(r.self),
                           !.log[key] = IF r.ret THEN Append(@, rec) ELSE @]
        ELSE u

\* the callbacks on_bbo / on_trade / on_agg_trade / on_depth5 of
\* UdpMd::start: the store of the record's kind, spot or ubase by product
\* type, gets the record if it was created
on_record(u, kind, rec) ==
    LET key == <<IF rec.product_type = "Spot" THEN "spot" ELSE "ubase", kind>>
        st  == u.stores[key]
    IN  IF st.some
        THEN LET r == write(st.val, rec.symbol, rec)
             IN  [u EXCEPT !.stores[key] = Some(r.self),
                           !.log[key] = IF r.ret THEN Append(@, rec) ELSE @]
        ELSE u

\* dispatch_payload: by message type, decode and call the callback
dispatch_payload(u, d) ==
    IF d.msg_type \in Kinds /\ d.decoded.some
    THEN on_record(u, d.msg_type, d.decoded.val)
    ELSE u

\* UdpReceiver::run, one iteration: recv, skip a datagram shorter than 2
\* bytes, dispatch
UdpRecv ==
    /\ Len(udp.arrived) < MaxDatagrams
    /\ \E d \in Datagrams :
        LET u == IF d.msg_type = "short" THEN udp ELSE dispatch_payload(udp, d)
        IN  udp' = [u EXCEPT !.arrived = Append(@, d)]

---------------------------------------------------------------------------
(* k4-md/src/binance/sbe_parser.rs : the SBE decoder of binary frames      *)
(*                                                                         *)
(* A frame is kept by what the decoder reads of it: its length, the        *)
(* template id at offset 2, the two exponent bytes of the body (offsets 16 *)
(* and 17) and the block length and count of its groups.  Mantissas and    *)
(* the symbol do not influence the control flow and are left out.  A field *)
(* that lies beyond the end of the frame is never read.                    *)
(* The decoder's outcome is [panic, n]: whether the call panicked, and the *)
(* number of records it returned otherwise.                                *)

SBE_HEADER_SIZE == 8

TEMPLATE_TRADES == 10000

TEMPLATE_BEST_BID_ASK == 10001

TEMPLATE_DEPTH == 10002

\* the length of the POW10 table
POW10_LEN == 37

BBA_MIN_BODY == 51

TRADES_ROOT_SIZE == 18

TRADES_GROUP_HEADER_SIZE == 6

DEPTH_ROOT_SIZE == 18

DEPTH_GROUP_HEADER_SIZE == 4

\* num_bids.min(5), num_asks.min(5)
DEPTH_LEVELS == 5

Returned(n) == [panic |-> FALSE, n |-> n]

Panicked == [panic |-> TRUE, n |-> 0]

\* `body[16] as i8`: the byte reinterpreted as a signed 8-bit integer
as_i8(b) == IF b < 128 THEN b ELSE b - 256

\* decode_decimal128 panics: idx = (exponent as i32 + 18) as usize indexes
\* POW10; a negative sum becomes a huge usize, so the index is in range only
\* for 0 <= exponent + 18 < 37
decode_decimal128_panics(exponent) ==
    LET idx == exponent + 18
    IN  ~(idx >= 0 /\ idx < POW10_LEN)

\* read_i64_le / read_u16_le / read_u32_le panic: data[offset..offset + n]
\* is sliced before try_into, so the slice must lie inside the data
read_panics(len, offset, n) == offset + n > len

\* parse_best_bid_ask
parse_best_bid_ask(body_len, f) ==
    IF body_len < BBA_MIN_BODY THEN Returned(0)
    ELSE IF \/ decode_decimal128_panics(as_i8(f.price_exp))
            \/ decode_decimal128_panics(as_i8(f.qty_exp))
         THEN Panicked
         ELSE Returned(1)

\* parse_trades, the loop over the group from entry i at `offset`, with n
\* trades pushed so far
RECURSIVE TradesLoop(_, _, _, _, _)
TradesLoop(body_len, f, i, offset, n) ==
    IF i = f.num THEN Returned(n)
    ELSE IF offset + f.block_length > body_len THEN Returned(n)
    ELSE IF \/ read_panics(body_len, offset, 8)
            \/ read_panics(body_len, offset + 8, 8)
            \/ decode_decimal128_panics(as_i8(f.price_exp))
            \/ read_panics(body_len, offset + 16, 8)
            \/ decode_decimal128_panics(as_i8(f.qty_exp))
         THEN Panicked
         ELSE TradesLoop(body_len, f, i + 1, offset + f.block_length, n + 1)

\* parse_trades of sbe_parser.rs
sbe_parse_trades(body_len, f) ==
    LET trades_start == TRADES_ROOT_SIZE + TRADES_GROUP_HEADER_SIZE
        trades_end   == trades_start + f.block_length * f.num
    IN  IF body_len < TRADES_ROOT_SIZE + TRADES_GROUP_HEADER_SIZE THEN Returned(0)
        ELSE IF trades_end > body_len THEN Returned(0)
        ELSE TradesLoop(body_len, f, 0, trades_start, 0)

\* parse_depth, one group of `num` levels of `block` bytes from `offset`:
\* did decoding its first min(num, 5) levels panic
RECURSIVE LevelsPanic(_, _, _, _, _, _)
LevelsPanic(body_len, f, block, levels, i, offset) ==
    IF i = levels THEN FALSE
    ELSE IF offset + block > body_len THEN FALSE
    ELSE \/ read_panics(body_len, offset, 8)
         \/ decode_decimal128_panics(as_i8(f.price_exp))
         \/ read_panics(body_len, offset + 8, 8)
         \/ decode_decimal128_panics(as_i8(f.qty_exp))
         \/ LevelsPanic(body_len, f, block, levels, i + 1, offset + block)

\* parse_depth, the offset after a group: each decoded level and each
\* skipped level advances it by the block length; a level at which the loop
\* broke off does not
RECURSIVE LevelsDone(_, _, _, _, _)
LevelsDone(body_len, block, levels, i, offset) ==
    IF i = levels \/ offset + block > body_len THEN i
    ELSE LevelsDone(body_len, block, levels, i + 1, offset + block)

AfterGroup(body_len, block, num, offset) ==
    LET levels == Min(num, DEPTH_LEVELS)
        done   == LevelsDone(body_len, block, levels, 0, offset)
    IN  offset + block * done + block * (num - levels)

\* parse_depth of sbe_parser.rs
sbe_parse_depth(body_len, f) ==
    LET bids_at == DEPTH_ROOT_SIZE + DEPTH_GROUP_HEADER_SIZE
        asks_hd == AfterGroup(body_len, f.block_length, f.num, bids_at)
        asks_at == asks_hd + DEPTH_GROUP_HEADER_SIZE
    IN  IF body_len < DEPTH_ROOT_SIZE + DEPTH_GROUP_HEADER_SIZE THEN Returned(0)
        ELSE IF LevelsPanic(body_len, f, f.block_length,
                            Min(f.num, DEPTH_LEVELS), 0, bids_at)
             THEN Panicked
        ELSE IF asks_hd + DEPTH_GROUP_HEADER_SIZE > body_len THEN Returned(1)
        ELSE IF LevelsPanic(body_len, f, f.ask_block_length,
                            Min(f.ask_num, DEPTH_LEVELS), 0, asks_at)
             THEN Panicked
        ELSE Returned(1)

\* parse_sbe_message
parse_sbe_message(f) ==
    IF f.len < SBE_HEADER_SIZE THEN Returned(0)
    ELSE LET body_len == f.len - SBE_HEADER_SIZE
         IN  CASE f.template_id = TEMPLATE_BEST_BID_ASK -> parse_best_bid_ask(body_len, f)
               [] f.template_id = TEMPLATE_TRADES -> sbe_parse_trades(body_len, f)
               [] f.template_id = TEMPLATE_DEPTH -> sbe_parse_depth(body_len, f)
               [] OTHER -> Returned(0)

\* the frames given to the decoder
FrameLens == {0, 7, 8, 30, 32, 40, 58, 59, 200}

TemplateIds == {0, TEMPLATE_TRADES, TEMPLATE_BEST_BID_ASK, TEMPLATE_DEPTH}

\* exponent bytes: 0, 18, 19, and -128, -19, -8 as bytes
PriceExpBytes == {0, 18, 19, 128, 237, 248}

QtyExpBytes == {19, 238, 248}

BlockLengths == {0, 8, 16, 24, 25}

GroupCounts == {0, 1, 2, 6}

Frames ==
    [len : FrameLens, template_id : TemplateIds,
     price_exp : PriceExpBytes, qty_exp : QtyExpBytes,
     block_length : BlockLengths, num : GroupCounts,
     ask_block_length : {0, 16}, ask_num : {0, 1}]

EmptyFrame ==
    [len |-> 0, template_id |-> 0, price_exp |-> 0, qty_exp |-> 248,
     block_length |-> 0, num |-> 0, ask_block_length |-> 0, ask_num |-> 0]

\* a connection task in its read loop about to be handed the frame
InitSbe(f) ==
    sbe = [frame |-> f, task |-> "running", result |-> None]

\* connection_loop hands a binary frame to on_binary (client.rs:200-203),
\* which runs the decoder and forwards its records (ws_helper.rs:87-93).
\* A panic of the decoder unwinds through the callback and connection_loop:
\* the connection task ends and is not restarted.
SbeOnBinary ==
    /\ sbe.task = "running"
    /\ sbe.result = None
    /\ LET r == parse_sbe_message(sbe.frame)
       IN  sbe' = [sbe EXCEPT !.result = Some(r),
                              !.task = IF r.panic THEN "panicked" ELSE "running"]

---------------------------------------------------------------------------
(* k4-md/src/pipeline.rs : GenericMd::start and GenericMd::stop, for one   *)
(* stream.  The stream's connection task is the WsConnection above; its    *)
(* channel and worker thread are kept here by what decides whether they    *)
(* end: the number of records queued, the number of Senders alive and the  *)
(* worker's position.                                                      *)
(*                                                                         *)
(* md.conn_count   the redundant-connection count of the stream's product  *)
(*                 (ProductConfig.redun_conn_count, default 1)             *)
(* md.has_stores   init_shm created stores for the stream                  *)
(* md.binary       the stream has a binary_parser (else a text_parser)     *)
(* md.phase        "init", "started" (start returned), "stopped"           *)
(* md.connections  WsConnections opened for the stream                     *)
(* md.workers      worker threads spawned for the stream                   *)
(* md.chan_len     records in the stream's channel                         *)
(* md.senders      Senders of the channel alive                            *)
(* md.worker       "none", "recv" (in the loop), "returned"                *)

\* GenericMd::new / init_shm, for one stream
InitMd(n, has_stores, binary) ==
    md = [conn_count |-> n, has_stores |-> has_stores, binary |-> binary,
          phase |-> "init", connections |-> 0, workers |-> 0,
          chan_len |-> 0, senders |-> 0, worker |-> "none"]

\* GenericMd::start, the loop body for the stream (pipeline.rs:174-232): a
\* stream without stores is skipped; otherwise the channel is created, the
\* worker is spawned on a blocking thread and one task is spawned that runs
\* run_ws_binary_stream or run_ws_text_stream, which builds one WsConnection
\* (id 0) and starts it (ws_helper.rs:47-57, 96-108).  The text callback
\* owns the Sender; the binary helper keeps the Sender and gives its
\* callback a clone.
MdStart ==
    /\ md.phase = "init"
    /\ IF md.has_stores
       THEN /\ WsStart
            /\ md' = [md EXCEPT !.phase = "started",
                                !.connections = 1,
                                !.workers = 1,
                                !.worker = "recv",
                                !.senders = IF md.binary THEN 2 ELSE 1]
       ELSE /\ md' = [md EXCEPT !.phase = "started"]
            /\ UNCHANGED wsVars

\* GenericMd::stop (pipeline.rs:239-245): task.abort() on every handle.
\* The worker runs under spawn_blocking, where abort has no effect once the
\* closure runs.  The helper task is cancelled at its pending() await
\* (ws_helper.rs:59, 110): its locals are dropped, among them the
\* WsConnection, without stop() being called, and the binary helper's own
\* Sender.  The connection task is detached and keeps the callback.
MdStop ==
    /\ md.phase = "started"
    /\ IF md.connections > 0
       THEN /\ WsDrop
            /\ md' = [md EXCEPT !.phase = "stopped",
                                !.senders = IF md.binary THEN @ - 1 ELSE @]
       ELSE /\ md' = [md EXCEPT !.phase = "stopped"]
            /\ UNCHANGED wsVars

\* a step A of the connection task; when the task returns, its callback is
\* dropped and with it the callback's Sender
MdConn(A) ==
    /\ md.connections > 0
    /\ A
    /\ md' = IF ws_pc # "closed" /\ ws_pc' = "closed"
             THEN [md EXCEPT !.senders = @ - 1]
             ELSE md

\* a frame arrives and the callback forwards a record of it: try_send
\* (ws_helper.rs:40-45, 88-92); a full channel drops the record
MdFrame ==
    /\ md.connections > 0
    /\ WsFrame
    /\ md' = [md EXCEPT !.chan_len = IF @ < ChanCap THEN @ + 1 ELSE @]

\* run_dedup_loop: rx.recv() gives a record (dedup_worker.rs:52)
MdWorkerRecv ==
    /\ md.worker = "recv"
    /\ md.chan_len > 0
    /\ md' = [md EXCEPT !.chan_len = @ - 1]
    /\ UNCHANGED wsVars

\* run_dedup_loop: rx.recv() gives Err on an empty channel without Senders;
\* the loop ends and the worker returns (dedup_worker.rs:52, 104-107)
MdWorkerReturn ==
    /\ md.worker = "recv"
    /\ md.chan_len = 0
    /\ md.senders = 0
    /\ md' = [md EXCEPT !.worker = "returned"]
    /\ UNCHANGED wsVars

---------------------------------------------------------------------------
(* k4-core/src/region.rs : ShmMdStore over its mapped region                  *)
(*                                                                         *)
(* The region is an array of cells of two words, a and b, the size of one  *)
(* record T.  The global ShmHeader is one cell (a: update_num, b:          *)
(* buffer_size), an InstrumentHeader is one cell (a: current_index, b:     *)
(* buffer_len), and each ring slot is one cell.  The store's index maps a  *)
(* symbol to the addresses of its header and of its first slot, as the     *)
(* pointers of the HashMap do.                                             *)

\* size_of::<ShmHeader>(), size_of::<InstrumentHeader>(), size_of::<T>(),
\* in cells
SIZE_OF_SHM_HEADER == 1

SIZE_OF_INSTRUMENT_HEADER == 1

SIZE_OF_T == 1

Cell(x, y) == [a |-> x, b |-> y]

\* ShmMdStore::calc_size
calc_size(instrument_count, buffer_size) ==
    LET slot_size == SIZE_OF_INSTRUMENT_HEADER + SIZE_OF_T * buffer_size
    IN  SIZE_OF_SHM_HEADER + slot_size * instrument_count

\* a plausible slip: the stride between instruments leaves out the header
OffsetOf_nohdr(k, buffer_size) ==
    SIZE_OF_SHM_HEADER + (k - 1) * (SIZE_OF_T * buffer_size)

\* ShmMdStore::create, the offset of the k-th symbol's InstrumentHeader:
\* offset starts after the ShmHeader and advances by one header and
\* buffer_size records per symbol
OffsetOf(k, buffer_size) ==
    SIZE_OF_SHM_HEADER
        + (k - 1) * (SIZE_OF_INSTRUMENT_HEADER + SIZE_OF_T * buffer_size)

\* ShmMdStore::create: the region is zeroed, the headers are written and
\* the index is built
shm_create(symbols, buffer_size) ==
    LET total_size == calc_size(Len(symbols), buffer_size)
        hdrs == {OffsetOf(k, buffer_size) : k \in 1..Len(symbols)}
    IN  [total_size  |-> total_size,
         buffer_size |-> buffer_size,
         mem   |-> [p \in 0..(total_size - 1) |->
                       IF p = 0 THEN Cell(0, buffer_size)
                       ELSE IF p \in hdrs THEN Cell(-1, buffer_size)
                       ELSE Cell(0, 0)],
         index |-> [s \in {symbols[k] : k \in 1..Len(symbols)} |->
                       LET k == CHOOSE j \in 1..Len(symbols) : symbols[j] = s
                       IN  [hdr  |-> OffsetOf(k, buffer_size),
                            data |-> OffsetOf(k, buffer_size)
                                         + SIZE_OF_INSTRUMENT_HEADER]]]

\* a cell of the region is overwritten; an address outside the region is
\* not part of the model's memory
Poke(mem, p, cell) == IF p \in DOMAIN mem THEN [mem EXCEPT ![p] = cell] ELSE mem

\* ShmMdStore::write on the region: load current_index, copy the record to
\* data_base.add(slot), store next into current_index
shm_write(self, symbol, data) ==
    IF symbol \in DOMAIN self.index
    THEN LET e    == self.index[symbol]
             next == self.mem[e.hdr].a + 1
             slot == next % self.buffer_size
             m1   == Poke(self.mem, e.data + SIZE_OF_T * slot, data)
             m2   == Poke(m1, e.hdr, [m1[e.hdr] EXCEPT !.a = next])
         IN  [self |-> [self EXCEPT !.mem = m2], ret |-> TRUE]
    ELSE [self |-> self, ret |-> FALSE]

\* ShmMdStore::read_latest on the region
shm_read_latest(self, symbol) ==
    IF symbol \notin DOMAIN self.index THEN None
    ELSE LET e   == self.index[symbol]
             idx == self.mem[e.hdr].a
         IN  IF idx < 0 THEN None
             ELSE Some(self.mem[e.data + SIZE_OF_T * (idx % self.buffer_size)])

\* the header's `update_num`
update_num(self) == self.mem[0].a

\* ShmMdStore::create(symbols, B); nothing called yet
InitShmFlat(symbols, B) ==
    region = [self    |-> shm_create(symbols, B),
              symbols |-> symbols,
              call    |-> NoCall,
              nwrites |-> [s \in {symbols[k] : k \in 1..Len(symbols)} |-> 0],
              total   |-> 0]

\* the symbol lists a store is created with
FlatSymbolLists ==
    {<<"BTCUSDT">>, <<"BTCUSDT", "ETHUSDT">>, <<"ETHUSDT", "BTCUSDT">>}

\* store.write(symbol, &Rec(v))
FlatWrite ==
    \E symbol \in AllSymbols, v \in 1..MaxVal :
        LET r == shm_write(region.self, symbol, Rec(v))
        IN  /\ region.total < MaxWrites
            /\ region' = [region EXCEPT
                         !.self = r.self,
                         !.call = [op |-> "write", symbol |-> symbol,
                                   data |-> Rec(v), pre |-> region.self,
                                   ret |-> r.ret],
                         !.nwrites = IF r.ret
                                     THEN [@ EXCEPT ![symbol] = @ + 1] ELSE @,
                         !.total = IF r.ret THEN @ + 1 ELSE @]

\* store.read_latest(symbol)
FlatReadLatest ==
    \E symbol \in AllSymbols :
        region' = [region EXCEPT
                  !.call = [op |-> "read_latest", symbol |-> symbol,
                            pre |-> region.self,
                            ret |-> shm_read_latest(region.self, symbol)]]

---------------------------------------------------------------------------
(* Depth5 records as the decoders build them.                              *)

\* The arrays of a record have DEPTH entries, entry i of the array being
\* entry i + 1 here.

\* nothing decoded yet
InitD5 == d5 = [decoder |-> "none"]

\* [0.0; 5] and [0; 5]
ZeroArray == [i \in 1..DEPTH |-> 0]

\* the Depth5 literal each decoder starts from: levels and arrays zero
Depth5Zero ==
    [bid_level |-> 0, ask_level |-> 0,
     bid_prices |-> ZeroArray, bid_vols |-> ZeroArray,
     ask_prices |-> ZeroArray, ask_vols |-> ZeroArray,
     bid_order_counts |-> ZeroArray, ask_order_counts |-> ZeroArray]

\* a JSON level: not an array; ["1", "2"]; ["1", "2", "0", "3"]; an array
\* whose strings are no numbers
JsonLevels == {"not_array", "pv", "pvxc", "bad"}

\* parse_str_f64(arr.first()).unwrap_or(0.0)
JsonPrice(level) == IF level \in {"pv", "pvxc"} THEN 1 ELSE 0

\* parse_str_f64(arr.get(1)).unwrap_or(0.0)
JsonVol(level) == IF level \in {"pv", "pvxc"} THEN 2 ELSE 0

\* parse_str_i32(arr.get(3))
JsonCount(level) == IF level = "pvxc" THEN Some(3) ELSE None

\* one side of fill_depth5_levels: for (i, level) in side.iter().take(5)
FillSide(side, field, prior) ==
    [i \in 1..DEPTH |->
        IF i <= Len(side) /\ side[i] # "not_array"
        THEN CASE field = "price" -> JsonPrice(side[i])
               [] field = "vol"   -> JsonVol(side[i])
               [] field = "count" -> IF JsonCount(side[i]).some
                                     THEN JsonCount(side[i]).val ELSE prior[i]
        ELSE prior[i]]

\* a plausible slip: the level count is the length of the list
fill_depth5_levels_len(depth, bids, asks) ==
    [bid_level |-> Len(bids),
     ask_level |-> Len(asks),
     bid_prices |-> FillSide(bids, "price", depth.bid_prices),
     bid_vols   |-> FillSide(bids, "vol", depth.bid_vols),
     ask_prices |-> FillSide(asks, "price", depth.ask_prices),
     ask_vols   |-> FillSide(asks, "vol", depth.ask_vols),
     bid_order_counts |-> FillSide(bids, "count", depth.bid_order_counts),
     ask_order_counts |-> FillSide(asks, "count", depth.ask_order_counts)]

\* fill_depth5_levels of json_util.rs
fill_depth5_levels(depth, bids, asks) ==
    [bid_level |-> Min(Len(bids), DEPTH),
     ask_level |-> Min(Len(asks), DEPTH),
     bid_prices |-> FillSide(bids, "price", depth.bid_prices),
     bid_vols   |-> FillSide(bids, "vol", depth.bid_vols),
     ask_prices |-> FillSide(asks, "price", depth.ask_prices),
     ask_vols   |-> FillSide(asks, "vol", depth.ask_vols),
     bid_order_counts |-> FillSide(bids, "count", depth.bid_order_counts),
     ask_order_counts |-> FillSide(asks, "count", depth.ask_order_counts)]

\* parse_depth of sbe_parser.rs, the record it returns when it returns one:
\* each group sets the entries of the levels it decoded and the level count
\* to their number; the asks are left as they were when their group header
\* lies beyond the body. A decoded mantissa gives the value m.
sbe_depth_record(body_len, f, m) ==
    LET bids_at == DEPTH_ROOT_SIZE + DEPTH_GROUP_HEADER_SIZE
        nb      == LevelsDone(body_len, f.block_length,
                              Min(f.num, DEPTH_LEVELS), 0, bids_at)
        asks_hd == AfterGroup(body_len, f.block_length, f.num, bids_at)
        asks_at == asks_hd + DEPTH_GROUP_HEADER_SIZE
        na      == IF asks_hd + DEPTH_GROUP_HEADER_SIZE > body_len THEN 0
                   ELSE LevelsDone(body_len, f.ask_block_length,
                                   Min(f.ask_num, DEPTH_LEVELS), 0, asks_at)
    IN  [Depth5Zero EXCEPT
            !.bid_level = nb, !.ask_level = na,
            !.bid_prices = [i \in 1..DEPTH |-> IF i <= nb THEN m ELSE 0],
            !.bid_vols   = [i \in 1..DEPTH |-> IF i <= nb THEN m ELSE 0],
            !.ask_prices = [i \in 1..DEPTH |-> IF i <= na THEN m ELSE 0],
            !.ask_vols   = [i \in 1..DEPTH |-> IF i <= na THEN m ELSE 0]]

\* parse_depth_to_md of bybit/mod.rs (lines 191-209): the record built from
\* get_depth5, the order counts [0; 5]
bybit_depth_record(self) ==
    LET d == get_depth5(self)
    IN  [Depth5Zero EXCEPT
            !.bid_level = d.bid_level, !.ask_level = d.ask_level,
            !.bid_prices = d.bid_prices, !.bid_vols = d.bid_vols,
            !.ask_prices = d.ask_prices, !.ask_vols = d.ask_vols]

\* the JSON arrays of one side
JsonSides == UNION {[1..n -> JsonLevels] : n \in 0..(DEPTH + 1)}

\* a JSON depth message decoded (okx, bitget, binance json_parser.rs): the
\* bids any list, the asks a number of equal levels
DecodeJson ==
    /\ d5.decoder = "none"
    /\ \E bids \in JsonSides, na \in 0..(DEPTH + 1), ka \in JsonLevels :
          LET asks == [i \in 1..na |-> ka]
          IN  d5' = [decoder |-> "json", given |-> <<Len(bids), na>>,
                     rec |-> Some(fill_depth5_levels(Depth5Zero, bids, asks))]

\* the bodies of the SBE depth frames: shorter than the root block, ending
\* inside a group, complete
DepthBodyLens == {21, 22, 38, 54, 58, 74, 200, 400}

\* an SBE depth frame decoded
DecodeSbe ==
    /\ d5.decoder = "none"
    /\ \E body_len \in DepthBodyLens, num \in 0..(DEPTH_LEVELS + 1),
          ask_num \in 0..(DEPTH_LEVELS + 1), block \in {16, 24}, m \in {0, 1} :
          LET f == [EmptyFrame EXCEPT !.len = body_len + SBE_HEADER_SIZE,
                                     !.template_id = TEMPLATE_DEPTH,
                                     !.block_length = block, !.num = num,
                                     !.ask_block_length = 16,
                                     !.ask_num = ask_num]
              r == parse_sbe_message(f)
          IN  d5' = [decoder |-> "sbe", given |-> <<num, ask_num>>,
                     rec |-> IF ~r.panic /\ r.n = 1
                             THEN Some(sbe_depth_record(body_len, f, m))
                             ELSE None]

\* a Bybit orderbook.50 message decoded: the book holds nb bids and na asks
DecodeBybit ==
    /\ d5.decoder = "none"
    /\ \E nb \in 0..(DEPTH + 2), na \in 0..(DEPTH + 2) :
          LET bids == [i \in 1..nb |-> <<2 * i, 1>>]
              asks == [i \in 1..na |-> <<2 * i, 1>>]
              self == set_snapshot(OrderBookNew, DEPTH + 2, bids, asks)
          IN  d5' = [decoder |-> "bybit", given |-> <<nb, na>>,
                     rec |-> Some(bybit_depth_record(self))]

---------------------------------------------------------------------------
(* The specifications.                                                     *)

IdleDedup == InitDedupVars

IdleShm == InitShmVars(1)

IdleWorker == InitWorkerVars(FALSE, TRUE, {}, 1)

IdleWs == InitWsVars(TRUE, FALSE)

IdleRed == InitRedVars(1)

IdleCore == IdleDedup /\ IdleShm /\ IdleWorker /\ IdleWs /\ IdleRed

IdleLat == InitLatVars

IdleBook == InitBookVars(1)

IdleBitget == InitBitget(<<>>, UpdateIdDedupNew)

IdleBinance == InitBinance([e |-> None, s |-> None, ps |-> None, id |-> None, rest |-> FALSE])

IdleUdp == InitUdp({})

IdleSbe == InitSbe(EmptyFrame)

IdleMd == InitMd(1, FALSE, FALSE)

IdleFlat == InitShmFlat(<<>>, 1)

IdleD5 == InitD5

IdleRest == IdleFlat /\ IdleD5

IdleTail == IdleSbe /\ IdleMd /\ IdleRest

IdleUnit == IdleLat /\ IdleBook /\ IdleBitget /\ IdleBinance /\ IdleUdp /\ IdleTail

\* ---- Spec: one stream
Init ==
    /\ \E p \in Profiles, f \in Feeds : InitWorkerVars(p[1], p[2], f, 1)
    /\ IdleDedup /\ IdleShm /\ IdleWs /\ IdleRed /\ IdleUnit

Next ==
    \/ Deliver /\ UNCHANGED <<dedupVars, shmVars, wsVars, redVars, unitVars>>
    \/ WorkerBbo /\ UNCHANGED <<dedupVars, shmVars, wsVars, redVars, unitVars>>
    \/ WorkerAggTrade /\ UNCHANGED <<dedupVars, shmVars, wsVars, redVars, unitVars>>
    \/ WorkerTrade /\ UNCHANGED <<dedupVars, shmVars, wsVars, redVars, unitVars>>
    \/ WorkerDepth5 /\ UNCHANGED <<dedupVars, shmVars, wsVars, redVars, unitVars>>

Spec == Init /\ [][Next]_vars

\* ---- SpecChan: one stream and the life of its channel.  The worker runs
\* on its own blocking thread (pipeline.rs:198-200), which the operating
\* system keeps scheduling: weak fairness of the worker's steps.
\* The channel treats every record alike, so two feeds of one symbol the
\* stores were created with stand for all: between them they reach every
\* arm of the worker.
ChanFeeds == {{<<"Bbo", "BTCUSDT">>, <<"Trade", "BTCUSDT">>},
              {<<"AggTrade", "BTCUSDT">>, <<"Depth5", "BTCUSDT">>}}

InitChan ==
    /\ \E f \in ChanFeeds, n \in 1..MaxSenders : InitWorkerVars(FALSE, TRUE, f, n)
    /\ IdleDedup /\ IdleShm /\ IdleWs /\ IdleRed /\ IdleUnit

WorkerStep ==
    WorkerBbo \/ WorkerAggTrade \/ WorkerTrade \/ WorkerDepth5 \/ WorkerReturn

NextChan ==
    \/ Deliver /\ UNCHANGED <<dedupVars, shmVars, wsVars, redVars, unitVars>>
    \/ DropSender /\ UNCHANGED <<dedupVars, shmVars, wsVars, redVars, unitVars>>
    \/ WorkerBbo /\ UNCHANGED <<dedupVars, shmVars, wsVars, redVars, unitVars>>
    \/ WorkerAggTrade /\ UNCHANGED <<dedupVars, shmVars, wsVars, redVars, unitVars>>
    \/ WorkerTrade /\ UNCHANGED <<dedupVars, shmVars, wsVars, redVars, unitVars>>
    \/ WorkerDepth5 /\ UNCHANGED <<dedupVars, shmVars, wsVars, redVars, unitVars>>
    \/ WorkerReturn /\ UNCHANGED <<dedupVars, shmVars, wsVars, redVars, unitVars>>

SpecChan ==
    /\ InitChan
    /\ [][NextChan]_vars
    /\ WF_vars(WorkerStep /\ UNCHANGED <<dedupVars, shmVars, wsVars, redVars, unitVars>>)

\* ---- SpecDedup
InitDedup == InitDedupVars /\ IdleShm /\ IdleWorker /\ IdleWs /\ IdleRed /\ IdleUnit

NextDedup ==
    \/ CallCheckAndUpdate /\ UNCHANGED <<shmVars, workerVars, wsVars, redVars, unitVars>>
    \/ CallCheckAndInsert /\ UNCHANGED <<shmVars, workerVars, wsVars, redVars, unitVars>>

SpecDedup == InitDedup /\ [][NextDedup]_vars

\* ---- SpecShm
InitShm ==
    /\ \E B \in 1..MaxB : InitShmVars(B)
    /\ IdleDedup /\ IdleWorker /\ IdleWs /\ IdleRed /\ IdleUnit

NextShm ==
    \/ CallWrite /\ UNCHANGED <<dedupVars, workerVars, wsVars, redVars, unitVars>>
    \/ CallReadLatest /\ UNCHANGED <<dedupVars, workerVars, wsVars, redVars, unitVars>>

SpecShm == InitShm /\ [][NextShm]_vars

\* ---- SpecShmConc
InitShmConc == InitShm

NextShmConc ==
    \/ WriteLoad /\ UNCHANGED <<dedupVars, workerVars, wsVars, redVars, unitVars>>
    \/ WriteCopy /\ UNCHANGED <<dedupVars, workerVars, wsVars, redVars, unitVars>>
    \/ WritePublish /\ UNCHANGED <<dedupVars, workerVars, wsVars, redVars, unitVars>>
    \/ \E r \in Readers : ReadLoad(r) /\ UNCHANGED <<dedupVars, workerVars, wsVars, redVars, unitVars>>
    \/ \E r \in Readers : ReadCopy(r) /\ UNCHANGED <<dedupVars, workerVars, wsVars, redVars, unitVars>>
    \/ \E r \in Readers : ReadReturn(r) /\ UNCHANGED <<dedupVars, workerVars, wsVars, redVars, unitVars>>

SpecShmConc == InitShmConc /\ [][NextShmConc]_vars

\* ---- SpecWs: the tokio runtime keeps polling a task that can make
\* progress, and a backoff sleep elapses: weak fairness of the task's steps
\* out of the top of the loop and out of the backoff wait.
InitWs ==
    /\ \E has_sub \in BOOLEAN, has_ping \in BOOLEAN : InitWsVars(has_sub, has_ping)
    /\ IdleDedup /\ IdleShm /\ IdleWorker /\ IdleRed /\ IdleUnit

NextWs ==
    \/ WsStart /\ UNCHANGED <<dedupVars, shmVars, workerVars, redVars, unitVars>>
    \/ WsSend /\ UNCHANGED <<dedupVars, shmVars, workerVars, redVars, unitVars>>
    \/ WsStop /\ UNCHANGED <<dedupVars, shmVars, workerVars, redVars, unitVars>>
    \/ WsStopReturn /\ UNCHANGED <<dedupVars, shmVars, workerVars, redVars, unitVars>>
    \/ WsDrop /\ UNCHANGED <<dedupVars, shmVars, workerVars, redVars, unitVars>>
    \/ WsLoopTop /\ UNCHANGED <<dedupVars, shmVars, workerVars, redVars, unitVars>>
    \/ WsConnectOk /\ UNCHANGED <<dedupVars, shmVars, workerVars, redVars, unitVars>>
    \/ WsConnectErr /\ UNCHANGED <<dedupVars, shmVars, workerVars, redVars, unitVars>>
    \/ WsBackoffElapsed /\ UNCHANGED <<dedupVars, shmVars, workerVars, redVars, unitVars>>
    \/ WsBackoffShutdown /\ UNCHANGED <<dedupVars, shmVars, workerVars, redVars, unitVars>>
    \/ WsSubscribeOk /\ UNCHANGED <<dedupVars, shmVars, workerVars, redVars, unitVars>>
    \/ WsSubscribeErr /\ UNCHANGED <<dedupVars, shmVars, workerVars, redVars, unitVars>>
    \/ WsRunShutdown /\ UNCHANGED <<dedupVars, shmVars, workerVars, redVars, unitVars>>
    \/ WsFrame /\ UNCHANGED <<dedupVars, shmVars, workerVars, redVars, unitVars>>
    \/ WsDisconnect /\ UNCHANGED <<dedupVars, shmVars, workerVars, redVars, unitVars>>
    \/ WsOutboundOk /\ UNCHANGED <<dedupVars, shmVars, workerVars, redVars, unitVars>>
    \/ WsOutboundErr /\ UNCHANGED <<dedupVars, shmVars, workerVars, redVars, unitVars>>
    \/ WsPingTick /\ UNCHANGED <<dedupVars, shmVars, workerVars, redVars, unitVars>>

SpecWs ==
    /\ InitWs
    /\ [][NextWs]_vars
    /\ WF_vars(WsLoopTop /\ UNCHANGED <<dedupVars, shmVars, workerVars, redVars, unitVars>>)
    /\ WF_vars((WsBackoffElapsed \/ WsBackoffShutdown)
                  /\ UNCHANGED <<dedupVars, shmVars, workerVars, redVars, unitVars>>)

\* ---- SpecLat: one LatencyCollector called directly
InitLat == InitLatVars /\ IdleCore /\ IdleBook /\ IdleBitget /\ IdleBinance /\ IdleUdp /\ IdleTail

NextLat ==
    \/ CallRecord /\ UNCHANGED <<coreVars, bookVars, bitget, binance, udp, sbe, md, region, d5>>
    \/ CallReset /\ UNCHANGED <<coreVars, bookVars, bitget, binance, udp, sbe, md, region, d5>>

SpecLat == InitLat /\ [][NextLat]_vars

\* ---- SpecBook: one OrderBook after its snapshot, given one delta
InitBook ==
    /\ \E N \in 1..MaxLevels : InitBookSnapshot(N)
    /\ IdleCore /\ IdleLat /\ IdleBitget /\ IdleBinance /\ IdleUdp /\ IdleTail

NextBook ==
    \/ CallUpdate /\ UNCHANGED <<coreVars, latVars, bitget, binance, udp, sbe, md, region, d5>>

SpecBook == InitBook /\ [][NextBook]_vars

\* ---- SpecSnap: one OrderBook given a snapshot and asked for its depth
InitSnap ==
    /\ \E N \in DEPTH..(DEPTH + 1) : InitBookVars(N)
    /\ IdleCore /\ IdleLat /\ IdleBitget /\ IdleBinance /\ IdleUdp /\ IdleTail

NextSnap ==
    \/ CallSetSnapshot /\ UNCHANGED <<coreVars, latVars, bitget, binance, udp, sbe, md, region, d5>>
    \/ CallGetDepth5 /\ UNCHANGED <<coreVars, latVars, bitget, binance, udp, sbe, md, region, d5>>

SpecSnap == InitSnap /\ [][NextSnap]_vars

\* ---- SpecBookSeq: one OrderBook given snapshots and deltas in any order
InitBookSeq ==
    /\ \E N \in 1..MaxLevels : InitBookVars(N)
    /\ IdleCore /\ IdleLat /\ IdleBitget /\ IdleBinance /\ IdleUdp /\ IdleTail

NextBookSeq ==
    \/ SeqSetSnapshot /\ UNCHANGED <<coreVars, latVars, bitget, binance, udp, sbe, md, region, d5>>
    \/ SeqUpdate /\ UNCHANGED <<coreVars, latVars, bitget, binance, udp, sbe, md, region, d5>>
    \/ SeqUpdateTwice /\ UNCHANGED <<coreVars, latVars, bitget, binance, udp, sbe, md, region, d5>>

SpecBookSeq == InitBookSeq /\ [][NextBookSeq]_vars

\* ---- SpecD5: one depth message decoded by one of the decoders
InitD5Spec ==
    /\ InitD5
    /\ IdleCore /\ IdleLat /\ IdleBook /\ IdleBitget /\ IdleBinance /\ IdleUdp
    /\ IdleSbe /\ IdleMd /\ IdleFlat

NextD5 ==
    \/ DecodeJson /\ UNCHANGED <<coreVars, latVars, bookVars, bitget, binance, udp, sbe, md, region>>
    \/ DecodeSbe /\ UNCHANGED <<coreVars, latVars, bookVars, bitget, binance, udp, sbe, md, region>>
    \/ DecodeBybit /\ UNCHANGED <<coreVars, latVars, bookVars, bitget, binance, udp, sbe, md, region>>

SpecD5 == InitD5Spec /\ [][NextD5]_vars

\* ---- SpecBitget: one `trade` message decoded and passed to the worker
InitBitgetSpec ==
    /\ \E data \in TradeArrays, prior \in Ids :
          InitBitget(data, IF prior = 0 THEN UpdateIdDedupNew
                           ELSE check_and_update(UpdateIdDedupNew, "BTCUSDT", prior).self)
    /\ IdleCore /\ IdleLat /\ IdleBook /\ IdleBinance /\ IdleUdp /\ IdleTail

NextBitget ==
    \/ BitgetParse /\ UNCHANGED <<coreVars, latVars, bookVars, binance, udp, sbe, md, region, d5>>
    \/ BitgetWorkerTrade /\ UNCHANGED <<coreVars, latVars, bookVars, binance, udp, sbe, md, region, d5>>

SpecBitget == InitBitgetSpec /\ [][NextBitget]_vars

\* ---- SpecBinance: one JSON message decoded
InitBinanceSpec ==
    /\ \E v \in JsonMessages : InitBinance(v)
    /\ IdleCore /\ IdleLat /\ IdleBook /\ IdleBitget /\ IdleUdp /\ IdleTail

NextBinance ==
    \/ BinanceParse /\ UNCHANGED <<coreVars, latVars, bookVars, bitget, udp, sbe, md, region, d5>>

SpecBinance == InitBinanceSpec /\ [][NextBinance]_vars

\* ---- SpecUdp: the receiver task of the UDP-ingress module
InitUdpSpec ==
    /\ \E configured \in UdpProfiles : InitUdp(configured)
    /\ IdleCore /\ IdleLat /\ IdleBook /\ IdleBitget /\ IdleBinance /\ IdleTail

NextUdp ==
    \/ UdpRecv /\ UNCHANGED <<coreVars, latVars, bookVars, bitget, binance, sbe, md, region, d5>>

SpecUdp == InitUdpSpec /\ [][NextUdp]_vars

\* ---- SpecSbe: one binary frame handed to the SBE decoder
InitSbeSpec ==
    /\ \E f \in Frames : InitSbe(f)
    /\ IdleCore /\ IdleLat /\ IdleBook /\ IdleBitget /\ IdleBinance /\ IdleUdp /\ IdleMd /\ IdleRest

NextSbe ==
    \/ SbeOnBinary /\ UNCHANGED <<coreVars, latVars, bookVars, bitget, binance, udp, md, region, d5>>

SpecSbe == InitSbeSpec /\ [][NextSbe]_vars

\* ---- SpecShmFlat: one ShmMdStore over its region, called by one thread
flatRest == <<coreVars, latVars, bookVars, bitget, binance, udp, sbe, md, d5>>

InitFlat ==
    /\ \E symbols \in FlatSymbolLists, B \in 1..MaxB : InitShmFlat(symbols, B)
    /\ IdleCore /\ IdleLat /\ IdleBook /\ IdleBitget /\ IdleBinance /\ IdleUdp
    /\ IdleSbe /\ IdleMd /\ IdleD5

NextFlat ==
    \/ FlatWrite /\ UNCHANGED flatRest
    \/ FlatReadLatest /\ UNCHANGED flatRest

SpecShmFlat == InitFlat /\ [][NextFlat]_vars

\* ---- SpecMd: one stream of GenericMd.  The tokio runtime keeps polling
\* the connection task and the operating system keeps scheduling the
\* worker thread: weak fairness of the steps that wait for nothing but the
\* scheduler or a timer (the top of the loop, the backoff wait, the worker).
\* select! chooses at random among its ready arms, so an arm that is ready
\* whenever the select! is entered is taken in the end: strong fairness of
\* the two shutdown arms.  How long connect_ws and the subscription send
\* take, and how they end, is up to the network; they carry no fairness.
mdRest == <<dedupVars, shmVars, workerVars, redVars, latVars, bookVars,
            bitget, binance, udp, sbe, region, d5>>

InitMdSpec ==
    /\ \E n \in 1..MaxConns, has_stores \in BOOLEAN, binary \in BOOLEAN :
           InitMd(n, has_stores, binary)
    /\ \E has_ping \in BOOLEAN : InitWsVars(TRUE, has_ping)
    /\ IdleDedup /\ IdleShm /\ IdleWorker /\ IdleRed
    /\ IdleLat /\ IdleBook /\ IdleBitget /\ IdleBinance /\ IdleUdp /\ IdleSbe /\ IdleRest

MdWorkerStep == MdWorkerRecv \/ MdWorkerReturn

NextMd ==
    \/ MdStart /\ UNCHANGED mdRest
    \/ MdStop /\ UNCHANGED mdRest
    \/ MdConn(WsLoopTop) /\ UNCHANGED mdRest
    \/ MdConn(WsConnectOk) /\ UNCHANGED mdRest
    \/ MdConn(WsConnectErr) /\ UNCHANGED mdRest
    \/ MdConn(WsBackoffElapsed) /\ UNCHANGED mdRest
    \/ MdConn(WsBackoffShutdown) /\ UNCHANGED mdRest
    \/ MdConn(WsSubscribeOk) /\ UNCHANGED mdRest
    \/ MdConn(WsSubscribeErr) /\ UNCHANGED mdRest
    \/ MdConn(WsRunShutdown) /\ UNCHANGED mdRest
    \/ MdConn(WsDisconnect) /\ UNCHANGED mdRest
    \/ MdConn(WsPingTick) /\ UNCHANGED mdRest
    \/ MdFrame /\ UNCHANGED mdRest
    \/ MdWorkerRecv /\ UNCHANGED mdRest
    \/ MdWorkerReturn /\ UNCHANGED mdRest

SpecMd ==
    /\ InitMdSpec
    /\ [][NextMd]_vars
    /\ WF_vars(MdConn(WsLoopTop) /\ UNCHANGED mdRest)
    /\ WF_vars(MdConn(WsBackoffElapsed \/ WsBackoffShutdown) /\ UNCHANGED mdRest)
    /\ SF_vars(MdConn(WsBackoffShutdown) /\ UNCHANGED mdRest)
    /\ SF_vars(MdConn(WsRunShutdown) /\ UNCHANGED mdRest)
    /\ WF_vars(MdWorkerStep /\ UNCHANGED mdRest)

\* ---- SpecRed: one RedundantWsClient and its caller
InitRed ==
    /\ \E n \in 1..MaxConns : InitRedVars(n)
    /\ IdleDedup /\ IdleShm /\ IdleWorker /\ IdleWs /\ IdleUnit

NextRed ==
    \/ RedStart /\ UNCHANGED <<dedupVars, shmVars, workerVars, wsVars, unitVars>>
    \/ RecordLatency /\ UNCHANGED <<dedupVars, shmVars, workerVars, wsVars, unitVars>>
    \/ EvalBegin /\ UNCHANGED <<dedupVars, shmVars, workerVars, wsVars, unitVars>>
    \/ EvalStop /\ UNCHANGED <<dedupVars, shmVars, workerVars, wsVars, unitVars>>
    \/ EvalReplace /\ UNCHANGED <<dedupVars, shmVars, workerVars, wsVars, unitVars>>
    \/ RedStop /\ UNCHANGED <<dedupVars, shmVars, workerVars, wsVars, unitVars>>

SpecRed == InitRed /\ [][NextRed]_vars

---------------------------------------------------------------------------
(* Claims about the deduplicators (SpecDedup).                             *)

\* the id stored for a symbol; a symbol without entry counts as 0 (or_insert(0))
Stored(self, symbol) == IF symbol \in DOMAIN self THEN self[symbol] ELSE 0

\* C5: check_and_update(symbol, id) returns true and stores id exactly when
\* id is strictly greater than the id stored for symbol; otherwise it returns
\* false and the stored id is unchanged (so every id <= the last accepted id,
\* duplicate or stale, is rejected).
C5_CheckAndUpdateIffGreater ==
    d_call.op = "check_and_update" =>
        LET symbol == d_call.arg[1]
            id     == d_call.arg[2]
            before == Stored(d_call.pre, symbol)
            after  == Stored(d_upd, symbol)
        IN  /\ d_call.ret <=> id > before
            /\ d_call.ret => after = id
            /\ ~d_call.ret => after = before /\ id <= before

\* C5 witness: an id was accepted, and then a smaller (stale) id for the same
\* symbol was rejected
C5_Witness ==
    /\ d_call.op = "check_and_update"
    /\ ~d_call.ret
    /\ d_call.arg[2] < Stored(d_call.pre, d_call.arg[1])
    /\ d_call.arg[2] > 0
    /\ d_call.prev.op = "check_and_update"
    /\ d_call.prev.ret
    /\ d_call.prev.arg[1] = d_call.arg[1]

\* C6: check_and_insert(u) reports "seen" (false) exactly when the slot
\* hash(u) mod 8192 holds hash(u); otherwise it stores hash(u) in that slot
\* and reports "new" (true); no other slot changes; the second of two calls
\* in a row with the same string returns false.
\* (Slots outside both sparse domains hold 0 before and after.)
C6_CheckAndInsertSlot ==
    d_call.op = "check_and_insert" =>
        LET hash == hash_uuid(d_call.arg)
            idx  == SlotOf(hash)
        IN  /\ (d_call.ret = FALSE) <=> (TableAt(d_call.pre, idx) = hash)
            /\ TableAt(d_uuid, idx) = hash
            /\ \A i \in ((DOMAIN d_uuid) \cup (DOMAIN d_call.pre)) \ {idx} :
                  TableAt(d_uuid, i) = TableAt(d_call.pre, i)
            /\ DOMAIN d_uuid \subseteq 0..(UUID_TABLE_SIZE - 1)
            /\ (d_call.prev.op = "check_and_insert" /\ d_call.prev.arg = d_call.arg)
                  => d_call.ret = FALSE

\* C6 witness: a string is inserted into a slot that held another string's
\* hash (true), and the same string is given again right away (false)
C6_Witness ==
    /\ d_call.op = "check_and_insert"
    /\ d_call.ret = FALSE
    /\ d_call.prev.op = "check_and_insert"
    /\ d_call.prev.arg = d_call.arg
    /\ d_call.prev.ret = TRUE
    /\ \E i \in DOMAIN d_uuid : i # SlotOf(hash_uuid(d_call.arg))

---------------------------------------------------------------------------
(* Claims about ShmMdStore without concurrency (SpecShm).                  *)

\* C7: after k >= 1 writes to a known symbol read_latest returns the k-th
\* record, also when k > buffer_size; read_latest is empty exactly when
\* current_index is -1 (no write completed); after k writes current_index
\* is k-1.
C7_ReadLatestIsLastWritten ==
    /\ \A s \in StoreSymbols : store.index[s].current_index = nwrites[s] - 1
    /\ (s_call.op = "read_latest" /\ s_call.symbol \in StoreSymbols) =>
          /\ s_call.ret = IF nwrites[s_call.symbol] = 0 THEN None
                          ELSE Some(lastw[s_call.symbol])
          /\ (s_call.ret = None) <=>
                (store.index[s_call.symbol].current_index = -1)

\* C7 witness: a read after more writes than the ring has slots
C7_Witness ==
    /\ s_call.op = "read_latest"
    /\ s_call.symbol \in StoreSymbols
    /\ nwrites[s_call.symbol] > store.buffer_size
    /\ store.buffer_size > 1
    /\ s_call.ret = Some(lastw[s_call.symbol])

\* C8: for a symbol that was not given to create, write returns false and
\* changes no index and no slot, and read_latest returns empty.
C8_UnknownSymbol ==
    /\ (s_call.op = "write" /\ s_call.symbol \notin StoreSymbols) =>
          /\ s_call.ret = FALSE
          /\ store = s_call.pre
    /\ (s_call.op = "read_latest" /\ s_call.symbol \notin StoreSymbols) =>
          s_call.ret = None

\* C8 witness: a write for an unknown symbol after earlier writes
C8_Witness ==
    /\ s_call.op = "write"
    /\ s_call.symbol \notin StoreSymbols
    /\ s_call.ret = FALSE
    /\ TotalWrites > 1

---------------------------------------------------------------------------
(* Claims about ShmMdStore with concurrent readers (SpecShmConc).          *)

\* C9 (as claimed): every record returned by read_latest while the single
\* writer is writing is one whole record that was passed to write, never a
\* mix of two records.
C9_ReadIsWholeRecord ==
    \A r \in Readers :
        (rd[r].pc = "idle" /\ rd[r].ret.some) => rd[r].ret.val \in passed

---------------------------------------------------------------------------
(* Claims about one stream: callbacks, channel and run_dedup_loop (Spec).  *)

StrictlyIncreasing(seq) == \A n \in 1..(Len(seq) - 1) : seq[n] < seq[n + 1]

Count(x, seq) == Cardinality({n \in 1..Len(seq) : seq[n] = x})

\* the kind is deduplicated by an UpdateIdDedup in this stream
Monotonic(kind) == kind # "Trade" \/ ~custom_td.some

\* the stream has a store for the kind and the store was created with the symbol
StoreHolds(i) == stores[i[1]].some /\ i[2] \in DOMAIN stores[i[1]].val.index

\* C1 (as claimed): for every (symbol, kind) of every stream the ids written
\* to the ring are strictly increasing.
C1_WrittenStrictlyIncreasing ==
    \A i \in Instruments : StrictlyIncreasing(written[i])

\* C1 (amended): for every (symbol, kind) whose kind is deduplicated by an
\* UpdateIdDedup (every kind except Trade of a stream that installs the
\* UuidDedup closure) the ids written to the ring are strictly increasing.
C1_MonotonicKindsStrictlyIncreasing ==
    \A i \in Instruments : Monotonic(i[1]) => StrictlyIncreasing(written[i])

\* C1 witness: two records of a monotonic kind were written and a third,
\* stale or duplicate, was received and not written
C1_Witness ==
    \E i \in Instruments :
        /\ Monotonic(i[1])
        /\ Len(written[i]) = 2
        /\ Len(submitted[i]) = 3

\* a delivery of id is the first one the worker receives, and every id it
\* received before for the same (symbol, kind) is smaller (and id is not 0,
\* the value a deduplicator holds for a symbol it has not seen)
FirstFresh(id, seq) ==
    /\ id > 0
    /\ \E n \in 1..Len(seq) :
          /\ seq[n] = id
          /\ \A m \in 1..(n - 1) : seq[m] < id

\* C2 (as claimed): when the same (symbol, kind, id) was received twice or
\* more, the worker wrote it exactly once (read in the claim's favour: the
\* store of the kind holds the symbol and the id is at least 1).
C2_ExactlyOneWrite ==
    \A i \in Instruments : \A id \in Ids \ {0} :
        (StoreHolds(i) /\ Count(id, submitted[i]) >= 2)
            => Count(id, written[i]) = 1

\* C2 (amended): for a kind deduplicated by an UpdateIdDedup the worker
\* writes a (symbol, kind, id) at most once however often and in whatever
\* order it is delivered; it writes it exactly once if and only if the store
\* of the kind holds the symbol, the id is at least 1 and at the first
\* delivery of the id every id received before for that symbol and kind was
\* smaller; otherwise it is not written at all.
C2_AtMostOneWrite ==
    \A i \in Instruments : Monotonic(i[1]) =>
        \A id \in Ids :
            /\ Count(id, written[i]) <= 1
            /\ Count(id, written[i]) = 1
                  <=> (StoreHolds(i) /\ FirstFresh(id, submitted[i]))

\* C2 witness: the same id was received twice and written once
C2_Witness ==
    \E i \in Instruments : \E id \in Ids :
        /\ Monotonic(i[1])
        /\ Count(id, submitted[i]) >= 2
        /\ Count(id, written[i]) = 1
        /\ chan = <<>>

\* C3 (as claimed): the record the worker received last was written if and
\* only if the deduplicator of its kind accepted it.
C3_WrittenIffAccepted ==
    last.op = "recv" => (last.wrote <=> last.is_new)

\* C3 (amended): a record is written if and only if the deduplicator of its
\* kind accepted it, the stream has a store for the kind and that store was
\* created with the record's symbol; a written record is then the latest in
\* its ring and no other store changes; otherwise no store changes.
C3_WrittenIffAcceptedAndHeld ==
    last.op = "recv" =>
        LET kind == last.msg.kind
            sym  == last.msg.symbol
            held == /\ last.pre[kind].some
                    /\ sym \in DOMAIN last.pre[kind].val.index
        IN  /\ last.wrote <=> (last.is_new /\ held)
            /\ last.wrote =>
                  /\ read_latest(stores[kind].val, sym) = Some(Rec(last.msg.id))
                  /\ \A k \in Kinds \ {kind} : stores[k] = last.pre[k]
            /\ ~last.wrote => stores = last.pre

\* C3 witness: an accepted record whose symbol the store of its kind does
\* not hold, after an accepted record that was written
C3_Witness ==
    /\ last.op = "recv"
    /\ last.is_new
    /\ ~last.wrote
    /\ stores[last.msg.kind].some
    /\ \E i \in Instruments : Len(written[i]) > 0

\* the elements of seq greater than every element before them, in order
PrefixMaxima(seq) ==
    LET F[n \in 0..Len(seq)] ==
            IF n = 0 THEN <<>>
            ELSE IF \A m \in 1..(n - 1) : seq[m] < seq[n]
                 THEN Append(F[n - 1], seq[n])
                 ELSE F[n - 1]
    IN  F[Len(seq)]

\* C4 (as claimed): for one symbol and one kind of a freshly started worker
\* (UpdateIdDedup, the store holding the symbol) the ids written are exactly
\* the received ids greater than every id received before, in order.
C4_WrittenArePrefixMaxima ==
    \A i \in Instruments :
        (Monotonic(i[1]) /\ StoreHolds(i))
            => written[i] = PrefixMaxima(submitted[i])

---------------------------------------------------------------------------
(* Claims about the connection task of WsConnection (SpecWs).              *)

\* stop() was called on the handle
StopRequested == ws_handle \in {"stopping", "stopped"}

\* C10 (as claimed): the connection task has returned (Closed) only after
\* stop was requested.
C10_ClosedOnlyAfterStop ==
    ws_pc = "closed" => StopRequested

\* C10 (amended): the connection task returns only after stop was requested
\* or the WsConnection was dropped (its shutdown sender gone), and only at
\* the top of the loop or out of a select! that watches the shutdown
\* channel; a failed connect, failed subscribe, read error, close frame, end
\* of stream or failed outbound send never ends the task but leads to the
\* backoff wait or the top of the loop, and as long as the handle is neither
\* stopped nor dropped the task then makes another connection attempt.
C10_ReconnectsUntilStopOrDrop ==
    /\ [](ws_pc = "closed" => (StopRequested \/ ws_handle = "dropped"))
    /\ [][(ws_pc # "closed" /\ ws_pc' = "closed")
            => (Signalled /\ ws_pc \in {"top", "running",
                                         "backoff_fail", "backoff_disc"})]_vars
    /\ [][(ws_pc \in {"connecting", "subscribing", "running"}
             /\ ws_pc' \notin {ws_pc, "subscribing", "running"})
            => \/ ws_pc' \in {"backoff_fail", "backoff_disc", "top"}
               \/ Signalled]_vars
    /\ (ws_pc \in {"backoff_fail", "backoff_disc", "top"} /\ ws_handle = "started")
          ~> (ws_pc = "connecting" \/ ws_handle # "started")

\* C10 witness: after a failure and a backoff wait the task of a handle that
\* is neither stopped nor dropped is connecting again
C10_Witness ==
    /\ ws_pc = "connecting"
    /\ ws_handle = "started"
    /\ backoff > InitialBackoffMs

\* 2^n
Pow2(n) == LET F[m \in 0..n] == IF m = 0 THEN 1 ELSE 2 * F[m - 1] IN F[n]

\* the wait the claim gives for the k-th wait in a row: min(100 ms * 2^(k-1), 30 s)
KthWait(k) == Min(InitialBackoffMs * Pow2(k - 1), MaxBackoffMs)

\* C11 (as claimed): the wait never exceeds 30 s, is 100 ms after a successful
\* connect, and the k-th consecutive failed connection attempt waits
\* min(100 ms * 2^(k-1), 30 s).
C11_KthFailedAttemptWait ==
    /\ backoff <= MaxBackoffMs
    /\ ws_pc \in {"subscribing", "running"} => backoff = InitialBackoffMs
    /\ ws_pc = "backoff_fail" => backoff = KthWait(ws_hist.fails)

\* C11 (amended): the wait never exceeds 30 s and is 100 ms after a
\* successful connect; it is doubled (up to 30 s) after every wait, the wait
\* that follows a disconnect included: the k-th consecutive wait since the
\* start of the task or its last successful connect lasts
\* min(100 ms * 2^(k-1), 30 s), so a failed attempt that follows a disconnect
\* waits twice what the same attempt waits counted from the start.
C11_KthConsecutiveWait ==
    /\ backoff <= MaxBackoffMs
    /\ ws_pc \in {"subscribing", "running"} => backoff = InitialBackoffMs
    /\ ws_pc \in {"backoff_fail", "backoff_disc"} => backoff = KthWait(ws_hist.waits)
    /\ ws_pc = "backoff_disc" => backoff = InitialBackoffMs
    /\ ws_pc \in {"top", "connecting"} => backoff = KthWait(ws_hist.waits + 1)
    /\ ws_hist.waits \in {ws_hist.fails, ws_hist.fails + 1}

\* C11 witness: a failed attempt that waits the full 30 s, in a run of
\* failures that began with a disconnect
C11_Witness ==
    /\ ws_pc = "backoff_fail"
    /\ backoff = MaxBackoffMs
    /\ ws_hist.waits = ws_hist.fails + 1

\* a step of the connection task by which it returns
WsExit == WsTask /\ ws_pc' = "closed"

\* C12 (as claimed): once stop() has signalled shutdown, the signal preempts
\* whatever the task is waiting in: as long as the task has not returned, its
\* return is the step it can take next (it does not depend on the pending
\* connect, subscribe, read, send, tick or sleep finishing first).
C12_StopPreemptsEveryWait ==
    (ws_handle = "stopping" /\ ws_pc # "closed") => ENABLED WsExit

\* C13 (as claimed): while the connection is running with a keep-alive
\* interval configured, a keep-alive message has been sent on the socket for
\* every interval that has elapsed.
C13_KeepAliveAtEveryInterval ==
    (ws_pc = "running" /\ ws_cfg.ping_interval)
        => ws_hist.pings = ws_hist.ticks

---------------------------------------------------------------------------
(* Claims about RedundantWsClient (SpecRed).                               *)

\* slots whose collector holds samples
WithSamples(lcs) == {i \in DOMAIN lcs : lcs[i].count > 0}

\* the connections that are started and not stopped
Live == {i \in DOMAIN connections : connections[i].state = "started"}

\* C14 (as claimed): with N >= 2 connections and a collector holding samples,
\* evaluate_and_reset returns Some(idx) where idx has the highest average
\* among the collectors with samples; that collector is reset, and the slot
\* holds a started replacement with a newly allocated identifier, the other
\* slots being as before.
C14_ReplacesHighestAverage ==
    (/\ r_call.op = "evaluate_and_reset"
     /\ VLen(r_call.pre.connections) >= 2
     /\ WithSamples(r_call.pre.latency_collectors) # {})
    => /\ r_call.ret.some
       /\ LET idx == r_call.ret.val
              pre == r_call.pre
          IN  /\ idx \in WithSamples(pre.latency_collectors)
              /\ \A j \in WithSamples(pre.latency_collectors) :
                    ~AvgGt(stats(pre.latency_collectors[j]).val,
                           stats(pre.latency_collectors[idx]).val)
              /\ latency_collectors[idx] = LatencyCollectorNew
              /\ connections[idx] = NewConn(pre.next_conn_id)
              /\ next_conn_id = pre.next_conn_id + 1
              /\ DOMAIN connections = DOMAIN pre.connections
              /\ \A j \in DOMAIN connections \ {idx} :
                    connections[j] = pre.connections[j]

\* C15: with exactly one connection evaluate_and_reset returns None, stops
\* and starts no connection, allocates no identifier (and leaves the
\* collectors as they are), whatever samples were recorded; it returns at
\* once, so a replacement is never under way with fewer than two connections.
C15_SingleConnectionNeverReplaced ==
    /\ (r_call.op = "evaluate_and_reset" /\ VLen(r_call.pre.connections) = 1)
          => /\ r_call.ret = None
             /\ connections = r_call.pre.connections
             /\ next_conn_id = r_call.pre.next_conn_id
             /\ latency_collectors = r_call.pre.latency_collectors
    /\ r_pc.pc # "idle" => VLen(connections) >= 2

\* C15 witness: evaluate_and_reset returned on a client with one connection
\* whose collector held a sample of positive latency
C15_Witness ==
    /\ r_call.op = "evaluate_and_reset"
    /\ VLen(r_call.pre.connections) = 1
    /\ r_call.pre.latency_collectors[0].sum > 0

\* C16: with N >= 2 connections and no collector holding a sample,
\* evaluate_and_reset returns None, stops and starts no connection, allocates
\* no identifier and leaves every collector empty.
C16_NoSamplesNoReplacement ==
    (/\ r_call.op = "evaluate_and_reset"
     /\ VLen(r_call.pre.connections) >= 2
     /\ WithSamples(r_call.pre.latency_collectors) = {})
    => /\ r_call.ret = None
       /\ connections = r_call.pre.connections
       /\ next_conn_id = r_call.pre.next_conn_id
       /\ \A i \in DOMAIN latency_collectors :
             latency_collectors[i] = LatencyCollectorNew

\* C16 witness: such a call, made after an earlier call had replaced a
\* connection
C16_Witness ==
    /\ r_call.op = "evaluate_and_reset"
    /\ VLen(r_call.pre.connections) >= 2
    /\ WithSamples(r_call.pre.latency_collectors) = {}
    /\ r_call.pre.next_conn_id > conn_count

\* C17: between start and stop of a client with N >= 2, at every instant,
\* the middle of evaluate_and_reset included, at least N-1 connections are
\* started and not stopped, and when no evaluate_and_reset is under way
\* exactly N are, in N slots.
C17_AtLeastNMinusOneLive ==
    (r_phase = "started" /\ conn_count >= 2)
    => /\ Cardinality(Live) >= conn_count - 1
       /\ Cardinality(Live) >= 1
       /\ r_pc.pc = "idle" =>
             /\ Cardinality(Live) = conn_count
             /\ VLen(connections) = conn_count

\* C17 witness: in the middle of a second replacement, the old connection
\* stopped and its replacement not yet started
C17_Witness ==
    /\ r_phase = "started"
    /\ r_pc.pc = "stopped"
    /\ Cardinality(Live) = conn_count - 1
    /\ next_conn_id > conn_count

\* C18 (as claimed): a sample recorded under the identifier of a live
\* connection is added to the collector of that connection's slot.
C18_SampleReachesCollector ==
    r_call.op = "record_latency" =>
        \A i \in DOMAIN r_call.pre.connections :
            (/\ r_call.pre.connections[i].id = r_call.conn_idx
             /\ r_call.pre.connections[i].state = "started")
            => /\ i \in DOMAIN latency_collectors
               /\ latency_collectors[i] =
                     record(r_call.pre.latency_collectors[i], r_call.latency_us)

\* C19: when the stream's channel is full, a newly decoded record is dropped
\* and the callback's try_send still returns (the delivery step is taken and
\* leaves the queue as it was); the records the channel accepted reach the
\* worker unchanged and in the order they were enqueued: at every moment
\* the accepted records are exactly the received ones followed by the
\* queued ones.
C19_FullChannelDropsNewest ==
    /\ [](Len(chan) <= ChanCap)
    /\ [](io.enq = io.deq \o chan)
    /\ []((sent < MaxMsgs /\ senders > 0) => ENABLED Deliver)
    /\ [][(sent' = sent + 1 /\ Len(chan) = ChanCap) => chan' = chan]_vars

\* a record was dropped on a full channel and everything accepted before it
\* has since been received in order
C19_Witness ==
    /\ sent > Len(io.enq)
    /\ Len(io.deq) = ChanCap
    /\ io.deq = io.enq

\* C20: run_dedup_loop has returned only if no sender is alive and the queue
\* is empty, having received every record the channel accepted; and once
\* every sender is dropped it does return.
C20_ReturnsWhenClosedAndDrained ==
    /\ [](worker_pc = "returned" => (senders = 0 /\ chan = <<>> /\ io.deq = io.enq))
    /\ ((senders = 0) ~> (worker_pc = "returned"))

\* the last sender went while records were queued, and the worker returned
C20_Witness ==
    /\ worker_pc = "returned"
    /\ io.at_close >= 1
    /\ Len(io.deq) >= 2
    /\ senders = 0

---------------------------------------------------------------------------
(* Claims about the independence of symbols in UpdateIdDedup (SpecDedup).  *)

\* C30: a check_and_update call for one symbol leaves the stored id of every
\* other symbol as it was and does not change the outcome of any later call
\* for another symbol; its own outcome is the one the map would give with
\* every other symbol's entry removed.
C30_SymbolsIndependent ==
    d_call.op = "check_and_update" =>
        LET symbol == d_call.arg[1]
            own    == [x \in (DOMAIN d_call.pre) \cap {symbol} |-> d_call.pre[x]]
        IN  /\ \A t \in AllSymbols \ {symbol} :
                   /\ last_id(d_upd, t) = last_id(d_call.pre, t)
                   /\ \A id \in Ids :
                          check_and_update(d_upd, t, id).ret
                              = check_and_update(d_call.pre, t, id).ret
            /\ d_call.ret = check_and_update(own, symbol, d_call.arg[2]).ret

\* C30 witness: the same id is accepted for one symbol and then for another
C30_Witness ==
    /\ d_call.op = "check_and_update"
    /\ d_call.ret
    /\ d_call.prev.op = "check_and_update"
    /\ d_call.prev.ret
    /\ d_call.prev.arg[1] # d_call.arg[1]
    /\ d_call.prev.arg[2] = d_call.arg[2]

---------------------------------------------------------------------------
(* Claims about LatencyCollector (SpecLat).                                *)

\* the sum of a sequence of numbers
SeqSum(q) ==
    LET F[n \in 0..Len(q)] == IF n = 0 THEN 0 ELSE F[n - 1] + q[n]
    IN  F[Len(q)]

\* the sum of f over the set S of arguments
RECURSIVE SumOver(_, _)
SumOver(f, S) ==
    IF S = {} THEN 0
    ELSE LET x == CHOOSE y \in S : TRUE
         IN  f[x] + SumOver(f, S \ {x})

\* the bin a sample belongs to: its 10 us bin, the last bin from 30 000 us on
BinOf(latency_us) ==
    IF latency_us >= 30000 THEN 2999 ELSE latency_us \div 10

\* C27: since the last reset, count is the number of samples and the sum of
\* all 3000 bins (those the sparse vector does not hold are 0); every bin holds the number of samples that belong to it, the
\* samples of 30 000 us or more being counted in bin 2999; min, max and sum
\* are those of the samples' true values.
C27_CountBinsAndClamp ==
    /\ collector.count = Len(samples)
    /\ DOMAIN collector.bins \subseteq 0..2999
    /\ SumOver(collector.bins, DOMAIN collector.bins) = collector.count
    /\ \A b \in 0..2999 :
           BinAt(collector, b) = Cardinality({i \in 1..Len(samples) : BinOf(samples[i]) = b})
    /\ collector.sum = SeqSum(samples)
    /\ samples # <<>> =>
           /\ \E i \in 1..Len(samples) : collector.max = samples[i]
           /\ \E i \in 1..Len(samples) : collector.min = samples[i]
           /\ \A i \in 1..Len(samples) : collector.min <= samples[i] /\ samples[i] <= collector.max

\* C27 witness: a 50 000 us sample and a 30 000 us sample are both in the
\* last bin, after a sample that was bucketed precisely
C27_Witness ==
    /\ samples = <<10, 50000, 30000>>
    /\ BinAt(collector, 2999) = 2
    /\ collector.max = 50000
    /\ collector.count = 3

---------------------------------------------------------------------------
(* Claims about OrderBook (SpecBook, SpecSnap).                            *)

\* a side is in its sort order: prices strictly falling (bids) or rising
IsSorted(side, desc) ==
    \A i \in 1..(Len(side) - 1) :
        IF desc THEN side[i][1] > side[i + 1][1] ELSE side[i][1] < side[i + 1][1]

\* what one (price, vol) of a delta does to a side that is in sort order;
\* inserts(vol) says which volumes insert a level that matches none
Applied(side, price, vol, N, desc, inserts(_)) ==
    LET M == {i \in 1..Len(side) : Abs(side[i][1] - price) < PRICE_EPS}
    IN  IF M # {}
        THEN LET i == CHOOSE m \in M : \A k \in M : m <= k
             IN  IF vol = 0
                 THEN [k \in 1..(Len(side) - 1) |-> IF k < i THEN side[k] ELSE side[k + 1]]
                 ELSE [k \in 1..Len(side) |-> IF k = i THEN <<side[k][1], vol>> ELSE side[k]]
        ELSE IF inserts(vol)
             THEN LET better == {k \in 1..Len(side) :
                                    IF desc THEN side[k][1] > price
                                            ELSE side[k][1] < price}
                      at     == Cardinality(better) + 1
                      full   == [k \in 1..(Len(side) + 1) |->
                                    IF k < at THEN side[k]
                                    ELSE IF k = at THEN <<price, vol>>
                                    ELSE side[k - 1]]
                  IN  IF Len(full) > N THEN [k \in 1..N |-> full[k]] ELSE full
             ELSE side

\* the levels of a delta applied in order
AppliedAll(side, delta, N, desc, inserts(_)) ==
    LET F[n \in 0..Len(delta)] ==
            IF n = 0 THEN side
            ELSE Applied(F[n - 1], delta[n][1], delta[n][2], N, desc, inserts)
    IN  F[Len(delta)]

NonZero(vol) == vol # 0

Positive(vol) == vol > 0

Ranked(levels, desc, i) ==
    CHOOSE l \in {levels[k] : k \in DOMAIN levels} :
        Cardinality({k \in DOMAIN levels :
                        IF desc THEN levels[k][1] > l[1] ELSE levels[k][1] < l[1]}) = i - 1

\* C25: after set_snapshot with more than 5 levels per side, in any order
\* and number, get_depth5 returns the 5 highest bids and the 5 lowest asks
\* of the snapshot input, best first, with their volumes.
C25_Depth5IsBestOfInput ==
    b_call.op = "get_depth5" =>
        /\ b_call.ret.bid_level = 5
        /\ b_call.ret.ask_level = 5
        /\ \A i \in 1..5 :
            /\ b_call.ret.bid_prices[i] = Ranked(b_call.bids, TRUE, i)[1]
            /\ b_call.ret.bid_vols[i] = Ranked(b_call.bids, TRUE, i)[2]
            /\ b_call.ret.ask_prices[i] = Ranked(b_call.asks, FALSE, i)[1]
            /\ b_call.ret.ask_vols[i] = Ranked(b_call.asks, FALSE, i)[2]

---------------------------------------------------------------------------
(* Claims about the Bitget trade decoder (SpecBitget).                     *)

\* the elements of a data array that decode to a trade, in array order
Decodable(data) == SelectSeq(data, LAMBDA item : item.rest /\ item.tradeId.some)

\* a batch as the venue sends it: every element decodes, ids positive,
\* different and newest (highest) first
NewestFirst(data) ==
    /\ Len(Decodable(data)) = Len(data)
    /\ \A i \in 1..Len(data) : data[i].tradeId.val > 0
    /\ \A i \in 1..(Len(data) - 1) : data[i].tradeId.val > data[i + 1].tradeId.val

\* C28: the trades of a `trade` message are emitted in exactly the reverse
\* of their array order; a newest-first batch therefore reaches the trade
\* dedup in ascending id order, and each of its trades is accepted exactly
\* when its id is above the last id accepted before the batch.
C28_TradesReversed ==
    bitget.pc = "sent" =>
        LET d == Decodable(bitget.data)
            n == Len(d)
        IN  /\ Len(bitget.out) = n
            /\ \A k \in 1..n : bitget.out[k].trade_id = d[n + 1 - k].tradeId.val
            /\ NewestFirst(bitget.data) =>
                /\ \A k \in 1..(n - 1) : bitget.out[k].trade_id < bitget.out[k + 1].trade_id
                /\ \A k \in 1..bitget.fed :
                      bitget.accepted[k]
                          <=> bitget.out[k].trade_id > Stored(bitget.dedup0, "BTCUSDT")

\* C28 witness: a newest-first batch of two trades, the older of which is
\* not newer than the last accepted one, has gone through the dedup
C28_Witness ==
    /\ bitget.pc = "sent"
    /\ NewestFirst(bitget.data)
    /\ Len(bitget.data) = 2
    /\ bitget.fed = 2
    /\ bitget.accepted = <<FALSE, TRUE>>

---------------------------------------------------------------------------
(* Claims about the Binance JSON decoder (SpecBinance).                    *)

\* C29 as claimed: every record decoded from a Binance JSON message is
\* Futures if the message carries a `ps` field and Spot otherwise.
C29_ProductTypeByPs ==
    (binance.pc = "done" /\ binance.ret.some) =>
        binance.ret.val.product_type = IF binance.v.ps.some THEN "Futures" ELSE "Spot"

\* C29 amended: the records decoded from aggTrade, bookTicker and trade
\* messages are Futures if the message carries a `ps` field and Spot
\* otherwise; the record of a depthUpdate message is always Futures.
C29_ProductTypeByPsExceptDepth ==
    (binance.pc = "done" /\ binance.ret.some) =>
        /\ binance.v.e.val \in {"aggTrade", "bookTicker", "trade", "depthUpdate"}
        /\ binance.ret.val.product_type =
              IF binance.v.e.val = "depthUpdate" \/ binance.v.ps.some
              THEN "Futures" ELSE "Spot"

\* C29 witness: a trade message without `ps` decoded to a Spot record
C29_Witness ==
    /\ binance.pc = "done"
    /\ binance.ret.some
    /\ binance.v.e.val = "trade"
    /\ ~binance.v.ps.some
    /\ binance.ret.val.product_type = "Spot"

---------------------------------------------------------------------------
(* Claims about the UDP-ingress module (SpecUdp).                          *)

\* the datagrams that decode to a record of the given store's kind and of
\* a product type that selects the given store
SelectedFor(key) ==
    SelectSeq(udp.arrived,
              LAMBDA d : /\ d.msg_type = key[2]
                         /\ d.decoded.some
                         /\ (d.decoded.val.product_type = "Spot") <=> (key[1] = "spot"))

Decoded(q) == [i \in DOMAIN q |-> q[i].decoded.val]

\* C23 as claimed: every record decoded from a datagram is written to the
\* store of its kind chosen by its product type, each time it arrives and
\* in arrival order.
C23_EveryRecordWritten ==
    \A key \in UdpStoreKeys : udp.log[key] = Decoded(SelectedFor(key))

\* C23 amended: the records written to a store are exactly, in arrival
\* order and with repetitions, the decoded records of its kind whose
\* product type selects it (Spot the spot store, any other the futures
\* store) and whose symbol the store was created with; a store that was
\* not created gets none; the store's latest record is the last written.
C23_RecordWrittenIfStoreHolds ==
    \A key \in UdpStoreKeys :
        LET st == udp.stores[key]
        IN  /\ udp.log[key] =
                 Decoded(SelectSeq(SelectedFor(key),
                                   LAMBDA d : /\ st.some
                                              /\ d.decoded.val.symbol \in UdpSymbols(key[1])))
            /\ st.some =>
                 \A sym \in UdpSymbols(key[1]) :
                    LET mine == SelectSeq(udp.log[key], LAMBDA r : r.symbol = sym)
                    IN  read_latest(st.val, sym) =
                           IF mine = <<>> THEN None ELSE Some(mine[Len(mine)])

\* C23 witness: the same record arrived twice, or a record arrived after a
\* newer one, and the futures trade store holds both in arrival order
C23_Witness ==
    /\ Len(udp.log[<<"ubase", "Trade">>]) = 2
    /\ udp.log[<<"ubase", "Trade">>][1].id >= udp.log[<<"ubase", "Trade">>][2].id
    /\ udp.log[<<"ubase", "Trade">>][1].product_type = "UMargin"

\* ---- C26
SbeCalled == sbe.result # None

\* the frame is shorter than the envelope, or its template is unknown, or
\* its body is shorter than the template's fixed part
Insufficient(f) ==
    \/ f.len < SBE_HEADER_SIZE
    \/ f.template_id \notin {TEMPLATE_TRADES, TEMPLATE_BEST_BID_ASK, TEMPLATE_DEPTH}
    \/ f.template_id = TEMPLATE_BEST_BID_ASK /\ f.len - SBE_HEADER_SIZE < BBA_MIN_BODY
    \/ f.template_id = TEMPLATE_TRADES
       /\ f.len - SBE_HEADER_SIZE < TRADES_ROOT_SIZE + TRADES_GROUP_HEADER_SIZE
    \/ f.template_id = TEMPLATE_DEPTH
       /\ f.len - SBE_HEADER_SIZE < DEPTH_ROOT_SIZE + DEPTH_GROUP_HEADER_SIZE

\* C26: for every binary frame, parse_sbe_message returns a list of records
\* without panicking and the connection task keeps running; a frame shorter
\* than the envelope, with an unknown template or with too few bytes yields
\* the empty list.
C26_NeverPanics ==
    SbeCalled =>
        /\ ~sbe.result.val.panic
        /\ sbe.task = "running"
        /\ Insufficient(sbe.frame) => sbe.result.val.n = 0

\* ---- C22
\* C22: for a started stream, GenericMd::start has opened as many
\* WebSocket connections as the configured redundant-connection count.
C22_OpensConfiguredCount ==
    (md.phase = "started" /\ md.has_stores) => md.connections = md.conn_count

\* ---- C21
MdAllTerminated ==
    /\ ws_pc = "closed"
    /\ md.worker = "returned"

\* C21: after GenericMd::stop, the connection task and the worker thread of
\* a started stream eventually terminate.
C21_StopTerminatesAll ==
    (md.phase = "stopped" /\ md.connections > 0) ~> MdAllTerminated

\* ---- C31
\* what the region holds of a symbol: its header and its ring slots
RegionOf(self, s) ==
    [hdr   |-> self.mem[self.index[s].hdr],
     slots |-> [i \in 0..(self.buffer_size - 1) |->
                   self.mem[self.index[s].data + SIZE_OF_T * i]]]

\* C31: a write to one symbol leaves the header (current_index) and every
\* ring slot of every other symbol as they were, and a symbol never written
\* still reads as empty.
C31_WriteLeavesOtherSymbols ==
    region.call.op = "write" =>
        \A s \in DOMAIN region.self.index :
            /\ s # region.call.symbol =>
                   RegionOf(region.self, s) = RegionOf(region.call.pre, s)
            /\ region.nwrites[s] = 0 => shm_read_latest(region.self, s) = None

\* a write that wrapped the ring of the first symbol of a two-symbol store
\* whose other symbol was never written
C31_Witness ==
    /\ region.call.op = "write"
    /\ region.call.ret
    /\ Len(region.symbols) = 2
    /\ region.call.symbol = region.symbols[1]
    /\ region.nwrites[region.symbols[1]] > region.self.buffer_size
    /\ region.nwrites[region.symbols[2]] = 0
    /\ region.self.buffer_size > 1

\* ---- C33
\* C33: the update_num field of the store's global header equals the number
\* of successful writes performed across all symbols of the store.
C33_UpdateNumCountsWrites ==
    update_num(region.self) = region.total

\* ---- C32
\* a step of the connection task in which a read or a write on the socket
\* failed, or the peer closed the stream
WsIoError == WsSubscribeErr \/ WsDisconnect \/ WsOutboundErr

\* C32: every read or write error on a connection moves the connection to
\* the backoff wait, so that a wait separates the error from the next
\* connection attempt.
C32_ErrorThenBackoff ==
    [][WsIoError => ws_pc' \in {"backoff_fail", "backoff_disc"}]_vars

\* ---- C34
\* reader r has returned a record
Returned34(r) == rd[r].pc = "idle" /\ rd[r].ret.some

\* C34: with one writer and a ring of size B, a read that loaded index i
\* returns something other than record i only if the write that publishes
\* index i + B had started before the reader finished copying; if fewer
\* than B - 1 further records were published during the read, it returns
\* exactly record i.
C34_TornOnlyOnWrap ==
    \A r \in Readers :
        Returned34(r) =>
            /\ rd[r].ret.val # Rec(rd[r].idx + 1) => rd[r].wrapped
            /\ rd[r].pubs < store.buffer_size - 1 =>
                   rd[r].ret.val = Rec(rd[r].idx + 1)

\* a read of a ring of two slots that returned a mixed record after the
\* writer came round to its slot
C34_Witness ==
    \E r \in Readers :
        /\ Returned34(r)
        /\ store.buffer_size = 2
        /\ rd[r].ret.val \notin {Rec(v) : v \in 0..MaxWrites}
        /\ rd[r].wrapped

\* ---- C35
\* the greatest element of a sequence of ids, 0 for the empty sequence
MaxId35(seq) ==
    IF seq = <<>> THEN 0
    ELSE CHOOSE x \in {seq[n] : n \in 1..Len(seq)} :
             \A n \in 1..Len(seq) : seq[n] <= x

\* the sequence without its last element
Front(seq) == SubSeq(seq, 1, Len(seq) - 1)

\* the UuidDedup table after the Trade records among msgs, in order
RECURSIVE TradeTable(_)
TradeTable(msgs) ==
    IF msgs = <<>> THEN UuidDedupNew
    ELSE LET m == msgs[Len(msgs)]
             t == TradeTable(Front(msgs))
         IN  IF m.kind = "Trade" THEN check_and_insert(t, m.id).table ELSE t

\* C35: the worker decides a record by the earlier records of the same kind
\* and symbol alone: it accepts a record of a kind that has an UpdateIdDedup
\* if and only if its id is greater than every id received before for that
\* kind and symbol, whatever was received for other kinds; with a custom
\* trade deduplicator, Trade records are decided by it alone and the
\* worker's own trade deduplicator is never consulted.
C35_OneDeduplicatorPerKind ==
    last.op = "recv" =>
        LET k == last.msg.kind
            i == <<k, last.msg.symbol>>
        IN  /\ Monotonic(k) =>
                  (last.is_new <=> last.msg.id > MaxId35(Front(submitted[i])))
            /\ ~Monotonic(k) =>
                  /\ last.is_new
                        <=> check_and_insert(TradeTable(Front(io.deq)),
                                             last.msg.id).ret
                  /\ trade_dedup = UpdateIdDedupNew

\* a record accepted although another kind of the same symbol had already
\* received a greater or equal id
C35_Witness ==
    /\ last.op = "recv"
    /\ last.is_new
    /\ Monotonic(last.msg.kind)
    /\ \E k \in Kinds \ {last.msg.kind} :
          LET seq == submitted[<<k, last.msg.symbol>>]
          IN  seq # <<>> /\ MaxId35(seq) >= last.msg.id

\* ---- C38
\* the identifiers of the connections the client holds
LiveIds(conns) == {conns[i].id : i \in DOMAIN conns}

\* the connections of conns2 that conns does not hold in the same slot
Created(conns, conns2) ==
    {i \in DOMAIN conns2 :
        /\ conns2[i].state = "started"
        /\ (i \notin DOMAIN conns \/ conns[i] # conns2[i])}

\* C38: the connection identifiers are handed out in increasing order
\* from 0 and never reused: the connections held have pairwise distinct
\* identifiers, all below next_conn_id; next_conn_id never decreases; and
\* the connections a step creates take exactly the identifiers from the old
\* next_conn_id up to the new one, one each.
C38_IdsNeverReused ==
    /\ [](/\ \A i, j \in DOMAIN connections :
                connections[i].id = connections[j].id => i = j
          /\ \A i \in DOMAIN connections : connections[i].id < next_conn_id)
    /\ [][/\ next_conn_id' >= next_conn_id
          /\ LET new == Created(connections, connections')
             IN  /\ {connections'[i].id : i \in new}
                       = next_conn_id..(next_conn_id' - 1)
                 /\ Cardinality(new) = next_conn_id' - next_conn_id]_vars

\* a replacement has been installed next to a connection of the first start
C38_Witness ==
    /\ r_call.op = "evaluate_and_reset"
    /\ r_call.ret.some
    /\ \E i, j \in DOMAIN connections :
          connections[i].id < conn_count /\ connections[j].id >= conn_count

\* ---- C40
\* the UpdateIdDedup the worker keeps for a kind (dedup_worker.rs lines 44-48)
DedupOf(kind) ==
    CASE kind = "Bbo"      -> bbo_dedup
      [] kind = "AggTrade" -> agg_dedup
      [] kind = "Trade"    -> trade_dedup
      [] kind = "Depth5"   -> depth5_dedup

InOrder(side, desc) ==
    \A i \in 1..(Len(side) - 1) :
        IF desc THEN side[i][1] >= side[i + 1][1] ELSE side[i][1] <= side[i + 1][1]

\* C36: after any sequence of set_snapshot and update calls on an
\* OrderBook<N>, each side holds at most N levels, the bids are in descending
\* order of price and the asks in ascending order.
C36_BoundedAndSorted ==
    /\ Len(book.bids) <= book_n
    /\ Len(book.asks) <= book_n
    /\ InOrder(book.bids, TRUE)
    /\ InOrder(book.asks, FALSE)

\* an update that dropped a level for capacity left both sides full, with
\* more than one level
C36_Witness ==
    /\ b_call.op = "update"
    /\ b_call.full
    /\ book_n > 1
    /\ Len(book.bids) = book_n
    /\ Len(book.asks) = book_n

C37_LevelsBoundedRestZero ==
    (d5.decoder # "none" /\ d5.rec.some) =>
        LET r == d5.rec.val
        IN  /\ r.bid_level <= DEPTH
            /\ r.ask_level <= DEPTH
            /\ \A i \in 1..DEPTH :
                  /\ i - 1 >= r.bid_level =>
                        /\ r.bid_prices[i] = 0
                        /\ r.bid_vols[i] = 0
                        /\ r.bid_order_counts[i] = 0
                  /\ i - 1 >= r.ask_level =>
                        /\ r.ask_prices[i] = 0
                        /\ r.ask_vols[i] = 0
                        /\ r.ask_order_counts[i] = 0

\* a JSON message with more than five bids and fewer than five asks gave a
\* record with five bid levels, their order counts set, and zeros after the
\* asks
C37_Witness ==
    /\ d5.decoder = "json"
    /\ d5.rec.some
    /\ d5.given[1] > DEPTH
    /\ d5.given[2] \in 1..(DEPTH - 1)
    /\ d5.rec.val.bid_level = DEPTH
    /\ d5.rec.val.bid_order_counts[DEPTH] # 0
    /\ d5.rec.val.ask_prices[1] # 0

====
